---- MODULE Spec2Model ----
(***************************************************************************)
(* Verification model of kada-mandiya-analytics:                           *)
(*   - the RabbitMQ consumer (src/consumers/rabbitmq_consumer.py) with the *)
(*     idempotency ledger and the dead-letter sink;                        *)
(*   - the pipeline orchestrator (src/jobs/runner.py, src/jobs/pipeline.py)*)
(*     with the application lock and the ops.etl_runs run log.             *)
(* The relational store is SQL Server: a transaction opened by             *)
(* engine.begin() commits on normal exit and rolls back on an exception;   *)
(* an INSERT on a key that an open transaction of another session has      *)
(* inserted waits for that transaction to end.                             *)
(***************************************************************************)
EXTENDS Integers, Sequences, FiniteSets, TLC

\* ------------------------------------------------------------------ bounds
MaxDeliveries == 2
MaxTicks == 2
MaxRequests == 2
MaxFailures == 7
MaxMessages == 2

\* ------------------------------------------------------- program constants
InsertAttempts == 5
DeadLetterAttempts == 3
StaleMinutes == 10
InitialBackoff == 1
BackoffFactor == 2
MaxBackoff == 30

None == "none"

NULL == 0 - 1

Consumers == {"c1", "c2"}
RoutingKeys == {"ui.click", "order.paid"}
MessageIds == {"m1"}
Bodies == {"{bad", "{ts:old}", "{a:1,b:2}"}

Procs == {"p1", "p2"}
Kinds == {"once", "watch", "scheduled"}
TzOffsets == {0, 330}
StageRows == {1}
SettingsSet == {[etl_enable_silver |-> TRUE, etl_enable_gold |-> TRUE],
                [etl_enable_silver |-> FALSE, etl_enable_gold |-> FALSE]}

VARIABLES dlq, dbUp, ledger, events, dead_letters, con, nextTag, settleLog, hist, died,
          lockHolder, orch, runs, clock, tzOffset, settings,
          expectedKey, bronze, deadRows, http, reqCount,
          call,
          stop_event, storeUp, run, msgs

cvars == <<dlq, dbUp, ledger, events, dead_letters, con, nextTag, settleLog, hist, died>>
ovars == <<lockHolder, orch, runs, clock, tzOffset, settings>>
hvars == <<expectedKey, bronze, deadRows, http, reqCount>>
fvars == <<call>>
rvars == <<stop_event, storeUp, run, msgs>>
vars == <<dlq, dbUp, ledger, events, dead_letters, con, nextTag, settleLog, hist, died,
          lockHolder, orch, runs, clock, tzOffset, settings,
          expectedKey, bronze, deadRows, http, reqCount,
          call,
          stop_event, storeUp, run, msgs>>

\* The variables of the other components, which a step of one component
\* leaves alone.
xcvars == <<ovars, hvars, fvars, rvars>>
xovars == <<cvars, hvars, fvars, rvars>>
xhvars == <<cvars, ovars, fvars, rvars>>
xfvars == <<cvars, ovars, hvars, rvars>>
xrvars == <<cvars, ovars, hvars, fvars>>

\* ---------------------------------------------------------------- consumer

\* json.loads of the body: a malformed body raises, two bodies that differ
\* only in the order of their keys decode to the same object.
decode_json_message(body) ==
    CASE body = "{bad" -> "error"
      [] body = "{ts:old}" -> "obj_ts_old"
      [] body = "{a:1,b:2}" -> "obj_ab"
      [] body = "{b:2,a:1}" -> "obj_ab"

\* json.dumps(sort_keys=True, separators=(",", ":")) of the decoded object.
stable_json(obj) ==
    CASE obj = "obj_ab" -> "{a:1,b:2}"
      [] obj = "obj_ts_old" -> "{ts:old}"

\* sha256 of routing_key|mid|stable_json, kept as the hashed triple.
compute_fingerprint(routing_key, message_id, payload_obj) ==
    <<routing_key, IF message_id = None THEN "" ELSE message_id, stable_json(payload_obj)>>

\* BusinessEvent.model_validate raises for a timestamp outside the skew window.
normalize_ok(payload_obj) ==
    payload_obj # "obj_ts_old"

\* return "reject" if self._cfg.dlq else "ack"
FailureAction(d) ==
    IF d THEN "reject" ELSE "ack"

\* finally-block of _handle_message: which settlement is attempted.
SettleAction(action, d) ==
    IF action = "reject" /\ d THEN "reject" ELSE "ack"

\* except Exception: pass around ack/reject.
SettleErrorSwallowedMut ==
    FALSE

SettleErrorSwallowed ==
    TRUE

\* First table written for a routing key, and the fan-out table.
PrimaryTableNoCheckout(rk) ==
    CASE rk = "ui.page_view" -> "page_view_events"
      [] rk = "ui.click" -> "click_events"
      [] rk = "ui.add_to_cart" -> "cart_events"
      [] OTHER -> "business_events"

PrimaryTable(rk) ==
    CASE rk = "ui.page_view" -> "page_view_events"
      [] rk = "ui.click" -> "click_events"
      [] rk = "ui.add_to_cart" -> "cart_events"
      [] rk = "ui.begin_checkout" -> "checkout_events"
      [] OTHER -> "business_events"

HasOrderRow(rk) ==
    rk \in {"order.paid", "payment.succeeded"}

TargetTables(rk) ==
    {PrimaryTable(rk)} \cup (IF HasOrderRow(rk) THEN {"order_events"} ELSE {})

\* INSERT INTO ops.event_fingerprints: TRUE when the row goes in, FALSE on the
\* duplicate-key error 2601/2627.
TryClaimAlways(fp, led) ==
    TRUE

try_claim_fingerprint(fp, led) ==
    fp \notin led

\* PRIMARY KEY of ops.event_fingerprints: the key inserted by an open
\* transaction of another session blocks the insert of the same key.
KeyNeverLocked(c, fp) ==
    FALSE

KeyLockedByOther(c, fp) ==
    \E o \in Consumers \ {c} : con[o].txClaim /\ con[o].fp = fp

\* What a transaction leaves in the store when its scope exits with an
\* exception (engine.begin() rolls back).
RollbackKeepsAll(pending) ==
    pending

RollbackKeeps(pending) ==
    {}

IdleCon ==
    [pc |-> "idle", tag |-> 0, rk |-> None, fp |-> <<>>, attempt |-> 0,
     dlAttempt |-> 0, reason |-> None, action |-> "ack", pending |-> {},
     txClaim |-> FALSE, inserted |-> FALSE, dup |-> FALSE, dupAtStart |-> FALSE,
     dlWritten |-> FALSE, undone |-> FALSE]

EventRow(table, c) ==
    [table |-> table, event_id |-> con[c].tag, fp |-> con[c].fp]

\* Rows of an aborted transaction that reach the store (none, by rollback).
AbortRows(c) ==
    RollbackKeeps(con[c].pending)

AbortLedger(c) ==
    IF con[c].txClaim /\ RollbackKeeps({con[c].fp}) # {} THEN {con[c].fp} ELSE {}

\* tenacity, stop_after_attempt(limit) with reraise=True: a failed attempt is
\* followed by another one while fewer than limit attempts were made.
NeverRetry(attempt, limit) ==
    FALSE

ShouldRetry(attempt, limit) ==
    attempt < limit

\* One attempt of _insert_event_sync ended with an exception: the transaction
\* is rolled back; tenacity retries up to InsertAttempts, then re-raises and
\* _process_message goes to the db_insert_failed dead letter.
AttemptFailed(c) ==
    /\ events' = events \cup AbortRows(c)
    /\ ledger' = ledger \cup AbortLedger(c)
    /\ IF ShouldRetry(con[c].attempt, InsertAttempts)
       THEN con' = [con EXCEPT ![c].pc = "claim", ![c].attempt = @ + 1,
                               ![c].pending = {}, ![c].txClaim = FALSE,
                               ![c].undone = con[c].txClaim]
       ELSE con' = [con EXCEPT ![c].pc = "dead_letter", ![c].reason = "db_insert_failed",
                               ![c].dlAttempt = 1,
                               ![c].pending = {}, ![c].txClaim = FALSE,
                               ![c].undone = con[c].txClaim]

\* The broker hands a message to the iterator and _handle_message starts;
\* _process_message lines 206-245: decode (invalid_json on failure),
\* fingerprint, normalize (normalize_failed on failure).
HandleMessage(c) ==
    /\ con[c].pc = "idle"
    /\ nextTag < MaxDeliveries
    /\ \E rk \in RoutingKeys, mid \in MessageIds, body \in Bodies :
         LET obj == decode_json_message(body)
             fp == IF obj = "error" THEN <<>> ELSE compute_fingerprint(rk, mid, obj)
             started == [IdleCon EXCEPT !.tag = nextTag + 1, !.rk = rk, !.fp = fp,
                                        !.dupAtStart = fp \in ledger]
         IN con' = [con EXCEPT ![c] =
                CASE obj = "error" ->
                       [started EXCEPT !.pc = "dead_letter", !.reason = "invalid_json",
                                       !.dlAttempt = 1]
                  [] obj # "error" /\ ~normalize_ok(obj) ->
                       [started EXCEPT !.pc = "dead_letter", !.reason = "normalize_failed",
                                       !.dlAttempt = 1]
                  [] OTHER ->
                       [started EXCEPT !.pc = "claim", !.attempt = 1]]
    /\ nextTag' = nextTag + 1
    /\ UNCHANGED <<dlq, dbUp, ledger, events, dead_letters, settleLog, hist, died>>
    /\ UNCHANGED xcvars

\* _insert_event_sync lines 292-300: the claim statement inside the transaction.
TxClaim(c) ==
    /\ con[c].pc = "claim"
    /\ \/ /\ dbUp
          /\ ~KeyLockedByOther(c, con[c].fp)
          /\ IF try_claim_fingerprint(con[c].fp, ledger)
             THEN con' = [con EXCEPT ![c].pc = "insert", ![c].txClaim = TRUE,
                                     ![c].undone = FALSE]
             ELSE con' = [con EXCEPT ![c].pc = "commit", ![c].dup = TRUE,
                                     ![c].undone = FALSE]
          /\ UNCHANGED <<events, ledger>>
       \/ /\ ~dbUp
          /\ AttemptFailed(c)
    /\ UNCHANGED <<dlq, dbUp, dead_letters, nextTag, settleLog, hist, died>>
    /\ UNCHANGED xcvars

\* _insert_event_sync lines 312-452: the INSERT into the routing key's table.
TxInsert(c) ==
    /\ con[c].pc = "insert"
    /\ \/ /\ dbUp
          /\ con' = [con EXCEPT ![c].pending = @ \cup {EventRow(PrimaryTable(con[c].rk), c)},
                                ![c].pc = IF HasOrderRow(con[c].rk) THEN "insert_order" ELSE "commit"]
          /\ UNCHANGED <<events, ledger>>
       \/ /\ ~dbUp
          /\ AttemptFailed(c)
    /\ UNCHANGED <<dlq, dbUp, dead_letters, nextTag, settleLog, hist, died>>
    /\ UNCHANGED xcvars

\* _insert_event_sync lines 455-479: the INSERT into bronze.order_events.
TxInsertOrder(c) ==
    /\ con[c].pc = "insert_order"
    /\ \/ /\ dbUp
          /\ con' = [con EXCEPT ![c].pending = @ \cup {EventRow("order_events", c)},
                                ![c].pc = "commit"]
          /\ UNCHANGED <<events, ledger>>
       \/ /\ ~dbUp
          /\ AttemptFailed(c)
    /\ UNCHANGED <<dlq, dbUp, dead_letters, nextTag, settleLog, hist, died>>
    /\ UNCHANGED xcvars

\* Exit of the with-block: COMMIT of claim and inserts together; the function
\* returns (claimed, rowcount) and _process_message returns "ack".
TxCommit(c) ==
    /\ con[c].pc = "commit"
    /\ \/ /\ dbUp
          /\ events' = events \cup con[c].pending
          /\ ledger' = ledger \cup (IF con[c].txClaim THEN {con[c].fp} ELSE {})
          /\ con' = [con EXCEPT ![c].pc = "settle", ![c].action = "ack",
                                ![c].inserted = con[c].txClaim,
                                ![c].pending = {}, ![c].txClaim = FALSE,
                               ![c].undone = con[c].txClaim]
       \/ /\ ~dbUp
          /\ AttemptFailed(c)
    /\ UNCHANGED <<dlq, dbUp, dead_letters, nextTag, settleLog, hist, died>>
    /\ UNCHANGED xcvars

\* _write_dead_letter_sync: one transaction with one INSERT, retried up to
\* DeadLetterAttempts times and then re-raised.  The call in _process_message
\* is not guarded: the re-raised error leaves _process_message, and
\* _handle_message keeps its initial action "ack".
WriteDeadLetter(c) ==
    /\ con[c].pc = "dead_letter"
    /\ \/ /\ dbUp
          /\ dead_letters' = Append(dead_letters,
                 [tag |-> con[c].tag, source |-> "rabbitmq", reason |-> con[c].reason])
          /\ con' = [con EXCEPT ![c].pc = "settle", ![c].dlWritten = TRUE,
                                ![c].undone = FALSE,
                                ![c].action = FailureAction(dlq)]
       \/ /\ ~dbUp
          /\ UNCHANGED dead_letters
          /\ IF ShouldRetry(con[c].dlAttempt, DeadLetterAttempts)
             THEN con' = [con EXCEPT ![c].dlAttempt = @ + 1]
             ELSE con' = [con EXCEPT ![c].pc = "settle", ![c].action = "ack",
                                     ![c].undone = FALSE]
    /\ UNCHANGED <<dlq, dbUp, ledger, events, nextTag, settleLog, hist, died>>
    /\ UNCHANGED xcvars

\* finally-block of _handle_message: one ack or reject; an error of the broker
\* call is swallowed and the iterator goes on with the next message.
Settle(c) ==
    /\ con[c].pc = "settle"
    /\ \E brokerOk \in BOOLEAN :
         /\ settleLog' = [settleLog EXCEPT ![con[c].tag] =
                              Append(@, SettleAction(con[c].action, dlq))]
         /\ hist' = hist \cup {[tag |-> con[c].tag, fp |-> con[c].fp,
                                stage |-> con[c].reason,
                                inserted |-> con[c].inserted, dup |-> con[c].dup,
                                dupAtStart |-> con[c].dupAtStart,
                                dlWritten |-> con[c].dlWritten,
                                settle |-> SettleAction(con[c].action, dlq)]}
         /\ con' = [con EXCEPT ![c] = IF brokerOk \/ SettleErrorSwallowed
                                        THEN IdleCon
                                        ELSE [IdleCon EXCEPT !.pc = "loop_crashed"]]
    /\ UNCHANGED <<dlq, dbUp, ledger, events, dead_letters, nextTag, died>>
    /\ UNCHANGED xcvars

\* The consumer process dies while a message is being handled: the server
\* rolls the open transaction back and the message stays unsettled.
Crash(c) ==
    /\ con[c].pc \notin {"idle", "loop_crashed"}
    /\ events' = events \cup AbortRows(c)
    /\ ledger' = ledger \cup AbortLedger(c)
    /\ con' = [con EXCEPT ![c] = IdleCon]
    /\ died' = died \cup {con[c].tag}
    /\ UNCHANGED <<dlq, dbUp, dead_letters, nextTag, settleLog, hist>>
    /\ UNCHANGED xcvars

\* The store becomes unreachable / reachable again.
StoreFail ==
    /\ dbUp
    /\ dbUp' = FALSE
    /\ UNCHANGED <<dlq, ledger, events, dead_letters, con, nextTag, settleLog, hist, died>>
    /\ UNCHANGED xcvars

StoreRecover ==
    /\ ~dbUp
    /\ dbUp' = TRUE
    /\ UNCHANGED <<dlq, ledger, events, dead_letters, con, nextTag, settleLog, hist, died>>
    /\ UNCHANGED xcvars

InitConsumer ==
    /\ dlq \in BOOLEAN
    /\ dbUp = TRUE
    /\ ledger = {}
    /\ events = {}
    /\ dead_letters = <<>>
    /\ con = [c \in Consumers |-> IdleCon]
    /\ nextTag = 0
    /\ settleLog = [t \in 1..MaxDeliveries |-> <<>>]
    /\ hist = {}
    /\ died = {}

\* No consumer is running.
ConsumerIdle ==
    /\ dlq = FALSE
    /\ dbUp = TRUE
    /\ ledger = {}
    /\ events = {}
    /\ dead_letters = <<>>
    /\ con = [c \in Consumers |-> IdleCon]
    /\ nextTag = 0
    /\ settleLog = [t \in 1..MaxDeliveries |-> <<>>]
    /\ hist = {}
    /\ died = {}

\* ------------------------------------------------------------ orchestrator

\* sp_getapplock with @LockTimeout = 0: 0 when granted at once, -1 when
\* another session holds the lock.
get_app_lock_granted(holder) ==
    0

get_app_lock(holder) ==
    IF holder = None THEN 0 ELSE 0 - 1

\* sp_releaseapplock in the finally-block of db_lock.  A failing call means the
\* session is gone, and the server frees the locks of a closed session.
release_app_lock_noop(holder, p) ==
    holder

release_app_lock(holder, p) ==
    IF holder = p THEN None ELSE holder

\* WHERE clause of fail_stale_running_runs: SYSUTCDATETIME() is the UTC clock,
\* SYSDATETIME() the server's local clock (UTC + offset).
IsStale(r, now, tz) ==
    /\ r.status = "running"
    /\ r.finished_at = NULL
    /\ \/ r.started_at < now - StaleMinutes
       \/ r.started_at < (now + tz) - StaleMinutes

fail_stale_running_runs(rs, now, tz) ==
    [i \in DOMAIN rs |->
        IF IsStale(rs[i], now, tz)
        THEN [rs[i] EXCEPT !.finished_at = now, !.status = "failed",
                           !.error_message = "auto_failed_stale"]
        ELSE rs[i]]

\* INSERT of start_run: status running, started_at = SYSUTCDATETIME().
start_run(rs, run_type, now) ==
    Append(rs, [run_type |-> run_type, started_at |-> now, finished_at |-> NULL,
                status |-> "running", rows_inserted |-> 0, error_message |-> None])

\* WHERE run_id = :run_id AND finished_at IS NULL
FinishGuardMut(r) ==
    TRUE

FinishGuard(r) ==
    r.finished_at = NULL

\* UPDATE of finish_run.
finish_run(rs, run_id, status, rows_inserted, error_message, now) ==
    [i \in DOMAIN rs |->
        IF i = run_id /\ FinishGuard(rs[i])
        THEN [rs[i] EXCEPT !.finished_at = now, !.status = status,
                           !.rows_inserted = rows_inserted,
                           !.error_message = error_message]
        ELSE rs[i]]

\* _pipeline_run_type: the parts joined by "+".
pipeline_run_type(seed_mode, enable_silver, enable_gold) ==
    LET parts == (IF seed_mode = "business" THEN <<"seed">>
                  ELSE IF seed_mode = "all" THEN <<"seed-all">> ELSE <<>>)
                 \o (IF enable_silver THEN <<"silver">> ELSE <<>>)
                 \o (IF enable_gold THEN <<"gold">> ELSE <<>>)
    IN IF parts = <<>> THEN <<"pipeline">> ELSE parts

\* steps list of run_pipeline.
Steps(seed_mode, enable_silver, enable_gold) ==
    (IF seed_mode \in {"business", "all"} THEN <<"02b_seed_business_events">> ELSE <<>>)
    \o (IF seed_mode = "all" THEN <<"02c_seed_behavior_events">> ELSE <<>>)
    \o (IF enable_silver THEN <<"03_build_silver">> ELSE <<>>)
    \o (IF enable_gold THEN <<"04_build_gold">> ELSE <<>>)

\* main() of runner.py: --once seeds business events by default, --watch does
\* not; _run_pipeline_job passes include_seed=False.
DefaultSeedMode(kind) ==
    IF kind = "once" THEN "business" ELSE "none"

InitOrchProc ==
    [pc |-> "init", kind |-> None, run_type |-> <<>>, seed_mode |-> None,
     run_id |-> 0, steps |-> <<>>, status |-> None, error_message |-> None,
     total_rows |-> 0, res |-> None, sawHeld |-> FALSE, stagesRun |-> 0,
     doneStages |-> <<>>, failedStage |-> None,
     finishOk |-> FALSE, result |-> None]

InRun(p) ==
    orch[p].pc \in {"pipeline_reap", "start_run", "in_stage", "finish_run", "release"}

\* The invocation returns (or raises) with this outcome.
Return(p, result) ==
    orch' = [orch EXCEPT ![p].pc = "done", ![p].result = result]

\* Entry of run_pipeline_once (runner.py 39-58) or of _run_pipeline_job.
Invoke(p) ==
    /\ orch[p].pc = "init"
    /\ \E kind \in Kinds :
         LET seed_mode == DefaultSeedMode(kind)
             started == [orch[p] EXCEPT !.kind = kind, !.seed_mode = seed_mode,
                                        !.run_type =
                                            CASE kind = "watch" -> <<"watch_silver+gold">>
                                              [] kind = "scheduled" -> <<"pipeline_scheduled">>
                                              [] OTHER -> pipeline_run_type(seed_mode,
                                                              settings.etl_enable_silver,
                                                              settings.etl_enable_gold)]
         IN IF kind = "scheduled"
            THEN orch' = [orch EXCEPT ![p] = [started EXCEPT !.pc = "lock"]]
            ELSE IF seed_mode = "none" /\ ~settings.etl_enable_silver
                                       /\ ~settings.etl_enable_gold
            THEN orch' = [orch EXCEPT ![p] = [started EXCEPT !.pc = "done",
                                                             !.result = "skipped"]]
            ELSE orch' = [orch EXCEPT ![p] = [started EXCEPT !.pc = "reap"]]
    /\ UNCHANGED <<lockHolder, runs, clock, tzOffset, settings>>
    /\ UNCHANGED xovars

\* runner.py line 60: the reaper runs before the lock is tried.
Reap(p) ==
    /\ orch[p].pc = "reap"
    /\ runs' = fail_stale_running_runs(runs, clock, tzOffset)
    /\ orch' = [orch EXCEPT ![p].pc = "lock"]
    /\ UNCHANGED <<lockHolder, clock, tzOffset, settings>>
    /\ UNCHANGED xovars

\* db_lock lines 46-49 and the LockNotAcquired handlers of the two callers.
TryLock(p) ==
    /\ orch[p].pc = "lock"
    /\ LET res == get_app_lock(lockHolder)
           me == [orch[p] EXCEPT !.res = res, !.sawHeld = lockHolder # None]
       IN IF res < 0
          THEN /\ UNCHANGED lockHolder
               /\ IF orch[p].kind = "watch"
                  THEN orch' = [orch EXCEPT ![p] = [me EXCEPT !.pc = "skip_start"]]
                  ELSE orch' = [orch EXCEPT ![p] = [me EXCEPT !.pc = "done",
                                                              !.result = "skipped"]]
          ELSE /\ lockHolder' = p
               /\ orch' = [orch EXCEPT ![p] = [me EXCEPT !.pc = "pipeline_reap"]]
    /\ UNCHANGED <<runs, clock, tzOffset, settings>>
    /\ UNCHANGED xovars

\* pipeline.py line 80.
PipelineReap(p) ==
    /\ orch[p].pc = "pipeline_reap"
    /\ runs' = fail_stale_running_runs(runs, clock, tzOffset)
    /\ orch' = [orch EXCEPT ![p].pc = "start_run"]
    /\ UNCHANGED <<lockHolder, clock, tzOffset, settings>>
    /\ UNCHANGED xovars

\* pipeline.py lines 81-108: the run row, then the list of steps.  An error of
\* start_run leaves run_pipeline before its try-block.
StartRun(p) ==
    /\ orch[p].pc = "start_run"
    /\ \E ok \in BOOLEAN :
         IF ok
         THEN LET steps == Steps(orch[p].seed_mode, settings.etl_enable_silver,
                                 settings.etl_enable_gold)
              IN /\ runs' = start_run(runs, orch[p].run_type, clock)
                 /\ orch' = [orch EXCEPT ![p].run_id = Len(runs) + 1,
                                         ![p].steps = steps,
                                         ![p].status = IF steps = <<>> THEN "success" ELSE "failed",
                                         ![p].pc = IF steps = <<>> THEN "finish_run" ELSE "in_stage"]
         ELSE /\ UNCHANGED runs
              /\ orch' = [orch EXCEPT ![p].status = "failed", ![p].pc = "release"]
    /\ UNCHANGED <<lockHolder, clock, tzOffset, settings>>
    /\ UNCHANGED xovars

\* str(exc) of the error a step ends with: the exception of its main(), or
\* RuntimeError("<module>.main() returned <rc>") for a non-zero result.
StageErrorText(step) ==
    "error in " \o step

StageOutcomes ==
    {"ok", "failed", "stats_failed"}

\* Body of the for-loop of run_pipeline for the step at the head of the list:
\* _call_etl_main returns and _latest_ops_run adds the step's rows, then the
\* next step starts (status = "success" after the last one); or the step
\* raises / returns non-zero; or the read of the step's statistics raises.
\* Any exception leaves the loop with status "failed" and error_message
\* str(exc) (pipeline.py 114-129).
StageEnd(p) ==
    /\ orch[p].pc = "in_stage"
    /\ \E outcome \in StageOutcomes, rows \in StageRows :
         LET step == Head(orch[p].steps)
             rest == Tail(orch[p].steps)
             ran == [orch[p] EXCEPT !.stagesRun = @ + 1]
         IN CASE outcome = "ok" ->
                   orch' = [orch EXCEPT ![p] =
                       [ran EXCEPT !.steps = rest,
                                   !.doneStages = Append(@, step),
                                   !.total_rows = @ + rows,
                                   !.status = IF rest = <<>> THEN "success" ELSE "failed",
                                   !.pc = IF rest = <<>> THEN "finish_run" ELSE "in_stage"]]
              [] outcome = "failed" ->
                   orch' = [orch EXCEPT ![p] =
                       [ran EXCEPT !.status = "failed",
                                   !.failedStage = step,
                                   !.error_message = StageErrorText(step),
                                   !.pc = "finish_run"]]
              [] outcome = "stats_failed" ->
                   orch' = [orch EXCEPT ![p] =
                       [ran EXCEPT !.status = "failed",
                                   !.doneStages = Append(@, step),
                                   !.error_message = "stats read failed",
                                   !.pc = "finish_run"]]
    /\ UNCHANGED <<lockHolder, runs, clock, tzOffset, settings>>
    /\ UNCHANGED xovars

\* finally-block of run_pipeline: finish_run, its own error only printed.
FinishRun(p) ==
    /\ orch[p].pc = "finish_run"
    /\ \E ok \in BOOLEAN :
         /\ runs' = IF ok
                    THEN finish_run(runs, orch[p].run_id, orch[p].status, orch[p].total_rows,
                                    orch[p].error_message, clock)
                    ELSE runs
         /\ orch' = [orch EXCEPT ![p].pc = "release", ![p].finishOk = ok]
    /\ UNCHANGED <<lockHolder, clock, tzOffset, settings>>
    /\ UNCHANGED xovars

\* finally-block of db_lock, then the return of the caller.
Release(p) ==
    /\ orch[p].pc = "release"
    /\ lockHolder' = release_app_lock(lockHolder, p)
    /\ Return(p, orch[p].status)
    /\ UNCHANGED <<runs, clock, tzOffset, settings>>
    /\ UNCHANGED xovars

\* _record_skipped_run: start_run ...
SkipStart(p) ==
    /\ orch[p].pc = "skip_start"
    /\ runs' = start_run(runs, orch[p].run_type, clock)
    /\ orch' = [orch EXCEPT ![p].run_id = Len(runs) + 1, ![p].pc = "skip_finish"]
    /\ UNCHANGED <<lockHolder, clock, tzOffset, settings>>
    /\ UNCHANGED xovars

\* ... then finish_run(run_id, "skipped"), and run_pipeline_once returns.
SkipFinish(p) ==
    /\ orch[p].pc = "skip_finish"
    /\ runs' = finish_run(runs, orch[p].run_id, "skipped", 0, "lock_not_acquired", clock)
    /\ Return(p, "skipped")
    /\ UNCHANGED <<lockHolder, clock, tzOffset, settings>>
    /\ UNCHANGED xovars

\* The orchestrator process dies: its session ends and the server frees the
\* session-owned lock; the run row stays as it is.
OrchCrash(p) ==
    /\ orch[p].pc \notin {"init", "done", "crashed"}
    /\ lockHolder' = IF lockHolder = p THEN None ELSE lockHolder
    /\ orch' = [orch EXCEPT ![p].pc = "crashed"]
    /\ UNCHANGED <<runs, clock, tzOffset, settings>>
    /\ UNCHANGED xovars

\* Time passes, in units of the staleness threshold.
Tick ==
    /\ clock < MaxTicks * StaleMinutes
    /\ clock' = clock + StaleMinutes
    /\ UNCHANGED <<lockHolder, orch, runs, tzOffset, settings>>
    /\ UNCHANGED xovars

InitOrch ==
    /\ lockHolder = None
    /\ orch = [p \in Procs |-> InitOrchProc]
    /\ runs = <<>>
    /\ clock = 0
    /\ tzOffset \in TzOffsets
    /\ settings \in SettingsSet

\* The orchestrator is not running.
OrchIdle ==
    /\ lockHolder = None
    /\ orch = [p \in Procs |-> InitOrchProc]
    /\ runs = <<>>
    /\ clock = 0
    /\ tzOffset = 0
    /\ settings = [etl_enable_silver |-> TRUE, etl_enable_gold |-> TRUE]

\* ----------------------------------------------------------- HTTP endpoint

\* Values of ANALYTICS_API_KEY (unset, empty, set) and of the X-ANALYTICS-KEY
\* header (missing, empty, matching, not matching).
ServerKeys == {None, "", "secret"}
HeaderKeys == {None, "", "secret", "wrong"}

\* Event types posted: one with a table of its own, one stored as a business
\* event.
HttpEventTypes == {"click", "order.created"}
EventIds == {"e1", "e2"}

\* Items of a batch: a non-dict, a dict without a usable event_type, a dict
\* that fails the schema (a missing field), a dict whose timestamp the model
\* validator rejects with ValueError, and valid events.
BadItems ==
    {[kind |-> k, event_type |-> None, event_id |-> None] :
        k \in {"not_dict", "blank_type"}}
    \cup {[kind |-> k, event_type |-> "click", event_id |-> None] :
            k \in {"bad_schema", "bad_timestamp"}}

ValidItems ==
    {[kind |-> "valid", event_type |-> "click", event_id |-> e] : e \in EventIds}
    \cup {[kind |-> "valid", event_type |-> "order.created", event_id |-> "e1"]}

Items == BadItems \cup ValidItems

Batches ==
    {<<>>} \cup {<<a>> : a \in Items} \cup {<<a, b>> : a \in Items, b \in Items}

\* Request bodies: empty, not JSON, a JSON list, a dict with an "events" list
\* (of one valid event here), or any other JSON value (one item).
RequestBodies ==
    {[shape |-> "empty", items |-> <<>>], [shape |-> "bad_json", items |-> <<>>]}
    \cup {[shape |-> "list", items |-> b] : b \in Batches}
    \cup {[shape |-> "events_dict", items |-> <<a>>] : a \in ValidItems}
    \cup {[shape |-> "single", items |-> <<a>>] : a \in Items}

\* normalize_events: the list, the "events" list, or the body as one item.
normalize_events(body) ==
    body.items

\* require_api_key: 503 when no secret is configured (None or empty), 401 when
\* the header differs from it, otherwise the request goes on (200 here).
AuthStatusNoPresenceCheck(expected, header) ==
    IF header # expected THEN 401 ELSE 200

AuthStatus(expected, header) ==
    IF expected = None \/ expected = "" THEN 503
    ELSE IF header # expected THEN 401
    ELSE 200

\* Table an accepted event is written to (insert_click, ..., insert_business).
HttpTable(event_type) ==
    IF event_type = "click" THEN "click_events" ELSE "business_events"

\* reason of the dead letter of a failed item.
FailureReason(item) ==
    CASE item.kind = "not_dict" -> <<"invalid_event_shape", None>>
      [] item.kind = "blank_type" -> <<"missing_event_type", None>>
      [] item.kind \in {"bad_schema", "bad_timestamp"} ->
             <<"validation_error", item.event_type>>
      [] item.kind = "valid" -> <<"db_insert_error", item.event_type>>

\* source of the dead letter of a failed item: "collector" for a non-dict, else
\* the item's own "source" (the events posted here come from the web client).
DeadLetterSource(item) ==
    IF item.kind = "not_dict" THEN "collector" ELSE "web"

\* insert_dead_letter serializes its payload with json.dumps before the INSERT.
\* The payload of a validation failure holds exc.errors(); for an error raised
\* by a validator (ValueError of validate_event_timestamp) it carries the
\* exception object under ctx.error, which json.dumps cannot serialize.
PayloadSerializable(item) ==
    item.kind # "bad_timestamp"

\* _insert_ignore_duplicates: the INSERT goes in, or its duplicate-key error
\* 2601/2627 is swallowed by the CATCH block (any other error is re-thrown).
insert_raise_duplicates(row, rows) ==
    IF row \in rows THEN "raised" ELSE "inserted"

insert_ignore_duplicates(row, rows) ==
    IF row \in rows THEN "ignored" ELSE "inserted"

\* What the store keeps of the writes of a transaction whose scope exits with
\* an exception (engine.begin() rolls back).
HttpRollbackKeepsAll(tx) ==
    tx

HttpRollbackKeeps(tx) ==
    [rows |-> {}, dead |-> <<>>]

\* dead_lettered += 1 stands before the guarded insert_dead_letter call.
CountDeadLetterIfWritten(n, written) ==
    IF written THEN n + 1 ELSE n

CountDeadLetter(n, written) ==
    n + 1

IdleRequest ==
    [pc |-> "idle", header |-> None, body |-> [shape |-> "empty", items |-> <<>>],
     events |-> <<>>, idx |-> 0, accepted |-> 0, dead_lettered |-> 0,
     txRows |-> {}, txDead |-> <<>>, connBroken |-> FALSE, log |-> <<>>,
     status |-> 0, result |-> <<>>, txFailed |-> FALSE,
     preBronze |-> {}, preDead |-> 0]

Respond(req, status, result) ==
    [req EXCEPT !.pc = "responded", !.status = status, !.result = result]

\* post_events lines 116-126 with the require_api_key dependency: the key
\* check, the empty body, json.loads, normalize_events.
HttpReceive ==
    /\ http.pc \in {"idle", "responded"}
    /\ reqCount < MaxRequests
    /\ reqCount' = reqCount + 1
    /\ \E header \in HeaderKeys, body \in RequestBodies :
         LET req == [IdleRequest EXCEPT !.header = header, !.body = body,
                                        !.preBronze = bronze, !.preDead = Len(deadRows)]
             auth == AuthStatus(expectedKey, header)
         IN http' =
              CASE auth # 200 -> Respond(req, auth, <<>>)
                [] auth = 200 /\ body.shape = "empty" -> Respond(req, 202, <<0, 0>>)
                [] auth = 200 /\ body.shape = "bad_json" -> [req EXCEPT !.pc = "invalid_json"]
                [] OTHER -> [req EXCEPT !.pc = "begin", !.events = normalize_events(body)]
    /\ UNCHANGED <<expectedKey, bronze, deadRows>>
    /\ UNCHANGED xhvars

\* post_events lines 128-151: the dead letter of a body that is not JSON, in a
\* transaction of its own; 503 when that transaction fails.
HttpInvalidJson ==
    /\ http.pc = "invalid_json"
    /\ \E ok \in BOOLEAN :
         IF ok
         THEN /\ deadRows' = Append(deadRows, [source |-> "collector",
                                               reason |-> <<"invalid_json", None>>])
              /\ http' = Respond(http, 202, <<0, 1>>)
         ELSE /\ deadRows' = deadRows
              /\ http' = Respond([http EXCEPT !.txFailed = TRUE], 503, <<>>)
    /\ UNCHANGED <<expectedKey, bronze, reqCount>>
    /\ UNCHANGED xhvars

\* post_events line 156: with _engine().begin() as conn.
HttpBegin ==
    /\ http.pc = "begin"
    /\ \E ok \in BOOLEAN :
         http' = IF ok THEN [http EXCEPT !.pc = "ingest", !.idx = 1]
                 ELSE Respond([http EXCEPT !.txFailed = TRUE], 503, <<>>)
    /\ UNCHANGED <<expectedKey, bronze, deadRows, reqCount>>
    /\ UNCHANGED xhvars

\* One iteration of the loop of ingest_events (handlers.py 81-168).  A
\* statement fails when the connection is broken or when the store refuses it;
\* a failing dead-letter write is logged and the loop goes on.
HttpIngestItem ==
    /\ http.pc = "ingest"
    /\ http.idx <= Len(http.events)
    /\ \E w \in {"ok", "stmt_error", "conn_lost"}, d \in {"ok", "conn_lost"} :
         LET item == http.events[http.idx]
             row == <<HttpTable(item.event_type), item.event_id>>
             writerRuns == item.kind = "valid"
             written == insert_ignore_duplicates(row, bronze \cup http.txRows)
             writerRaises == writerRuns
                               /\ (http.connBroken \/ w # "ok" \/ written = "raised")
             duplicate == writerRuns /\ ~writerRaises /\ written = "ignored"
             brokenAfterWriter == http.connBroken \/ (writerRuns /\ w = "conn_lost")
             failed == ~writerRuns \/ writerRaises
             dlReachesStore == failed /\ PayloadSerializable(item)
             dlWritten == dlReachesStore /\ ~brokenAfterWriter /\ d = "ok"
             brokenAfter == brokenAfterWriter \/ (dlReachesStore /\ d = "conn_lost")
         IN http' = [http EXCEPT
                !.idx = @ + 1,
                !.connBroken = brokenAfter,
                !.accepted = IF failed THEN @ ELSE @ + 1,
                !.dead_lettered = IF failed THEN CountDeadLetter(@, dlWritten) ELSE @,
                !.txRows = IF writerRuns /\ ~writerRaises THEN @ \cup {row} ELSE @,
                !.txDead = IF dlWritten
                           THEN Append(@, [source |-> DeadLetterSource(item),
                                           reason |-> FailureReason(item)])
                           ELSE @,
                !.log = Append(@, [outcome |-> IF failed THEN "failed"
                                               ELSE IF duplicate THEN "duplicate"
                                               ELSE "inserted",
                                   dlWritten |-> dlWritten,
                                   item |-> item,
                                   existed |-> writerRuns
                                                 /\ row \in bronze \cup http.txRows,
                                   writerError |-> writerRuns
                                                     /\ (http.connBroken \/ w # "ok")])]
    /\ UNCHANGED <<expectedKey, bronze, deadRows, reqCount>>
    /\ UNCHANGED xhvars

\* End of the with-block (COMMIT) and the response: 202 with the counters, or
\* 503 when the commit raises (post_events 155-168).
HttpCommit ==
    /\ http.pc = "ingest"
    /\ http.idx > Len(http.events)
    /\ \E ok \in BOOLEAN :
         IF ok /\ ~http.connBroken
         THEN /\ bronze' = bronze \cup http.txRows
              /\ deadRows' = deadRows \o http.txDead
              /\ http' = Respond(http, 202, <<http.accepted, http.dead_lettered>>)
         ELSE LET kept == HttpRollbackKeeps([rows |-> http.txRows, dead |-> http.txDead])
              IN /\ bronze' = bronze \cup kept.rows
                 /\ deadRows' = deadRows \o kept.dead
                 /\ http' = Respond([http EXCEPT !.txFailed = TRUE], 503, <<>>)
    /\ UNCHANGED <<expectedKey, reqCount>>
    /\ UNCHANGED xhvars

InitHttp ==
    /\ expectedKey \in ServerKeys
    /\ bronze = {}
    /\ deadRows = <<>>
    /\ http = IdleRequest
    /\ reqCount = 0

\* The HTTP endpoint serves no request.
HttpIdle ==
    /\ expectedKey = None
    /\ bronze = {}
    /\ deadRows = <<>>
    /\ http = IdleRequest
    /\ reqCount = 0

\* --------------------------------------------------------- pure functions

\* One call of a function of the program: its inputs, then its result.
IdleCall ==
    [fn |-> None, pc |-> "idle", in |-> <<>>, out |-> <<>>]

FnIdle ==
    call = IdleCall

Pending(fn, in) ==
    [fn |-> fn, pc |-> "called", in |-> in, out |-> <<>>]

Returned(out) ==
    [call EXCEPT !.pc = "returned", !.out = out]

\* JSON values as json.loads builds them: a number, or a dict, which keeps the
\* order in which its keys were read.  Keys are numbered in their sort order.
JsonKeys == {1, 2}

Num(n) ==
    [t |-> "num", n |-> n, o |-> <<>>]

Obj(pairs) ==
    [t |-> "obj", n |-> 0, o |-> pairs]

\* The dicts over a set of member values, keys distinct, in every key order.
Dicts(V) ==
    {<<>>}
    \cup {<< <<k, v>> >> : k \in JsonKeys, v \in V}
    \cup {<< <<k[1], v1>>, <<k[2], v2>> >> :
            k \in {x \in JsonKeys \X JsonKeys : x[1] # x[2]}, v1 \in V, v2 \in V}

InnerValues ==
    {Num(1)}

JsonValues ==
    {Num(1), Num(2)} \cup {Obj(d) : d \in Dicts(InnerValues)}

Payloads ==
    {Obj(d) : d \in Dicts(JsonValues)}

\* Equality of two JSON values: same numbers; same keys with equal values,
\* whatever the order of the keys.
RECURSIVE JsonEqual(_, _)
JsonEqual(a, b) ==
    /\ a.t = b.t
    /\ a.n = b.n
    /\ Len(a.o) = Len(b.o)
    /\ \A i \in DOMAIN a.o :
          \E j \in DOMAIN b.o :
             /\ a.o[i][1] = b.o[j][1]
             /\ JsonEqual(a.o[i][2], b.o[j][2])

\* sort_keys=True: the items of a dict in the order of their keys.
RECURSIVE SortedFrom(_, _)
SortedFrom(pairs, k) ==
    IF k > Cardinality(JsonKeys) THEN <<>>
    ELSE SelectSeq(pairs, LAMBDA p : p[1] = k) \o SortedFrom(pairs, k + 1)

\* json.dumps without sort_keys writes a dict in its own key order.
RECURSIVE json_dumps_unsorted(_)
json_dumps_unsorted(value) ==
    IF value.t = "num" THEN value
    ELSE Obj([i \in DOMAIN value.o |->
                <<value.o[i][1], json_dumps_unsorted(value.o[i][2])>>])

\* stable_json: json.dumps(value, sort_keys=True, separators=(",", ":")); the
\* text is kept as the sequence of items it writes, at every depth.
RECURSIVE stable_json_dumps(_)
stable_json_dumps(value) ==
    IF value.t = "num" THEN value
    ELSE Obj(SortedFrom([i \in DOMAIN value.o |->
                           <<value.o[i][1], stable_json_dumps(value.o[i][2])>>], 1))

\* hashlib.sha256(...).hexdigest() has 64 hexadecimal characters.
DigestHexLen == 64

\* compute_fingerprint: the digest of routing_key|mid|stable_json, kept as its
\* length and the hashed blob.
compute_fingerprint_hex(routing_key, message_id, payload_obj) ==
    LET mid == IF message_id = None THEN "" ELSE message_id
    IN [hexlen |-> DigestHexLen,
        blob |-> <<routing_key, "|", mid, "|", stable_json_dumps(payload_obj)>>]

FingerprintMessageIds == {None, "", "m1"}

FingerprintCalls ==
    {Pending("compute_fingerprint",
             [routing_key |-> rk, message_id |-> mid, payload_obj |-> p]) :
        rk \in {"ui.click", "order.paid"}, mid \in FingerprintMessageIds, p \in Payloads}

\* compute_fingerprint on the inputs of the call, and again on a second
\* message id and payload with the same routing key.
ComputeFingerprint ==
    /\ call.pc = "called"
    /\ call.fn = "compute_fingerprint"
    /\ \E mid2 \in FingerprintMessageIds, p2 \in Payloads :
         call' = Returned(
            [first |-> compute_fingerprint_hex(call.in.routing_key, call.in.message_id,
                                               call.in.payload_obj),
             message_id2 |-> mid2,
             payload_obj2 |-> p2,
             second |-> compute_fingerprint_hex(call.in.routing_key, mid2, p2)])
    /\ UNCHANGED xfvars

\* _as_str: str(value).strip() or None.
_as_str(value) ==
    CASE value = None -> None
      [] value = " X " -> "X"
      [] value = "  " -> None
      [] value = "" -> None
      [] OTHER -> value

\* s[:64]: "X65" stands for an id of 65 characters, "X64" for its first 64.
Trunc64(s) ==
    IF s = "X65" THEN "X64" ELSE s

\* Keys read by best_effort_order_id, in the order of the list.
OrderIdKeys == <<"order_id", "orderId", "id">>

\* _find_first: the value of the first key that is present and not None.
_find_first(obj, keys) ==
    LET hits == SelectSeq(keys, LAMBDA k : obj[k] # None)
    IN IF hits = <<>> THEN None ELSE obj[hits[1]]

\* _candidate_dicts: the payload itself, then its sub-objects "meta", "data",
\* "payload", "event", "order", "payment", "review" (those that are dicts).
\* The payloads here have the sub-objects "meta" and "data".
_candidate_dicts(payload_obj) ==
    <<payload_obj.top, payload_obj.meta, payload_obj.data>>

\* best_effort_order_id: the first candidate dict whose first present key has
\* a non-blank value decides; entity_id is the fallback.
best_effort_order_id(entity_id, payload_obj) ==
    LET found == [i \in DOMAIN _candidate_dicts(payload_obj) |->
                     _as_str(_find_first(_candidate_dicts(payload_obj)[i], OrderIdKeys))]
        hits == SelectSeq(found, LAMBDA s : s # None)
    IN IF hits # <<>> THEN Trunc64(hits[1])
       ELSE IF entity_id # None /\ entity_id # "" THEN Trunc64(entity_id)
       ELSE None

KeyDict(a, b, c) ==
    [order_id |-> a, orderId |-> b, id |-> c]

OrderPayloads ==
    {[top |-> KeyDict(a, b, c), meta |-> KeyDict(None, None, m), data |-> KeyDict(x, None, d)] :
        a \in {None, "T"}, b \in {None, "T2"}, c \in {None, "evt-1"},
        m \in {None, "M"}, x \in {None, "X", " X ", "X65", "  "}, d \in {None, "D"}}

OrderIdCalls ==
    {Pending("best_effort_order_id", [entity_id |-> e, payload_obj |-> p]) :
        e \in {None, "", "E"}, p \in OrderPayloads}

BestEffortOrderId ==
    /\ call.pc = "called"
    /\ call.fn = "best_effort_order_id"
    /\ call' = Returned(best_effort_order_id(call.in.entity_id, call.in.payload_obj))
    /\ UNCHANGED xfvars

\* _first_nonempty(payload_obj, keys): the first value whose str().strip() is
\* not empty, else None.
_first_nonempty(value) ==
    IF value = None \/ value = "" THEN None ELSE value

\* _best_effort_correlation_id: the message's correlation id when not blank,
\* else the payload's, else None.
_best_effort_correlation_id(payload, message_correlation_id) ==
    IF _first_nonempty(message_correlation_id) # None THEN message_correlation_id
    ELSE _first_nonempty(payload.correlation_id)

\* normalize_to_business_event: event_id is a fresh uuid4, event_type the
\* payload's or the routing key, event_timestamp a UTC datetime, session_id the
\* correlation id or else session_fallback (fp[:64]).
normalize_to_business_event(routing_key, message_correlation_id, payload) ==
    LET correlation_id == _best_effort_correlation_id(payload, message_correlation_id)
    IN [event_id |-> "uuid4", event_type |-> routing_key, event_timestamp |-> "utc",
        correlation_id |-> correlation_id,
        entity_id |-> IF _first_nonempty(payload.entity_id) # None
                         THEN payload.entity_id
                         ELSE _first_nonempty(payload.order_id),
        session_id |-> IF correlation_id # None THEN correlation_id ELSE "fp[:64]"]

\* rk = (routing_key or "").strip().lower()
strip_lower(routing_key) ==
    CASE routing_key = " UI.Click " -> "ui.click"
      [] routing_key = "Order.Paid" -> "order.paid"
      [] OTHER -> routing_key

\* The rows _insert_event_sync writes for a claimed message, with the values
\* it binds: the ui.* tables take session_id from the payload alone and have
\* no event_type column; bronze.business_events has no session_id column;
\* bronze.order_events is given session_id None.
insert_event_rows(routing_key, payload, event) ==
    LET rk == strip_lower(routing_key)
        ui == [table |-> PrimaryTable(rk), event_id |-> event.event_id,
               event_timestamp |-> event.event_timestamp, event_type |-> "no_column",
               session_id |-> _first_nonempty(payload.session_id),
               order_id |-> IF rk = "ui.begin_checkout"
                               THEN _first_nonempty(payload.order_id)
                               ELSE "no_column"]
        business == [table |-> "business_events", event_id |-> event.event_id,
                     event_timestamp |-> event.event_timestamp,
                     event_type |-> event.event_type, session_id |-> "no_column",
                     order_id |-> "no_column"]
        order == [table |-> "order_events", event_id |-> event.event_id,
                  event_timestamp |-> event.event_timestamp,
                  event_type |-> rk, session_id |-> None,
                  order_id |-> IF _first_nonempty(payload.order_id) # None
                                  THEN payload.order_id
                                  ELSE event.entity_id]
    IN IF PrimaryTable(rk) # "business_events" THEN {ui}
       ELSE {business} \cup (IF HasOrderRow(rk) THEN {order} ELSE {})

\* BaseEvent validation and insert_click of the HTTP endpoint: session_id is
\* taken from correlation_id when it is missing or blank, and is a required
\* string; the row binds event.session_id.
http_click_row(item) ==
    LET session_id == IF _first_nonempty(item.session_id) = None
                         /\ _first_nonempty(item.correlation_id) # None
                      THEN item.correlation_id ELSE item.session_id
    IN IF session_id = None THEN {}
       ELSE {[table |-> "click_events", event_id |-> "uuid4", event_timestamp |-> "utc",
              event_type |-> "no_column", session_id |-> session_id]}

SessionInputs ==
    [session_id : {None, "", "s1"}, correlation_id : {None, "", "c1"}]

AllRoutingKeys ==
    {"ui.page_view", "ui.click", "ui.add_to_cart", "ui.begin_checkout",
     "order.paid", "payment.succeeded", "order.created",
     " UI.Click ", "Order.Paid"}

ConsumerPayloads ==
    [session_id : {None, "", "s1"}, correlation_id : {None, "", "c1"},
     order_id : {None, "o1"}, entity_id : {None, "e1"}]

RowCalls ==
    {Pending("_insert_event_sync",
             [routing_key |-> rk, message_correlation_id |-> mc, payload |-> p]) :
        rk \in AllRoutingKeys, mc \in {None, "", "mc1"}, p \in ConsumerPayloads}
    \cup {Pending("insert_click", p) : p \in SessionInputs}

\* A consumer message is normalized and its rows are written.
BuildConsumerRows ==
    /\ call.pc = "called"
    /\ call.fn = "_insert_event_sync"
    /\ LET event == normalize_to_business_event(call.in.routing_key,
                                                 call.in.message_correlation_id,
                                                 call.in.payload)
       IN call' = Returned([event |-> event,
                            rows |-> insert_event_rows(call.in.routing_key,
                                                       call.in.payload, event)])
    /\ UNCHANGED xfvars

\* A click event posted to the HTTP endpoint is validated and written.
BuildHttpRow ==
    /\ call.pc = "called"
    /\ call.fn = "insert_click"
    /\ call' = Returned([rows |-> http_click_row(call.in)])
    /\ UNCHANGED xfvars

\* ---- candidate dictionaries of the two normalizers

\* A key of the payload that is missing or holds something that is no dict.
NotADict ==
    [is_dict |-> FALSE, entity_id |-> None, entityId |-> None]

\* isinstance(v, dict)
isinstance_dict(v) ==
    v.is_dict

\* The payload itself, then payload_obj.get(k) for each k of names that is a
\* dict.
candidate_dicts(payload_obj, names) ==
    <<payload_obj.top>>
        \o SelectSeq([i \in DOMAIN names |-> payload_obj[names[i]]],
                     LAMBDA v : isinstance_dict(v))

\* consumers/mapper.py _candidate_dicts
mapper_candidate_dicts(payload) ==
    candidate_dicts(payload, <<"meta", "data", "payload", "event">>)

\* RabbitMQConsumer._candidate_dicts
consumer_candidate_dicts(payload_obj) ==
    candidate_dicts(payload_obj, <<"meta", "data", "payload", "event", "properties">>)

\* for d in dcts: for k in keys: the first value that is not None and whose
\* str().strip() is not empty.
_first_nonempty_str(dcts, keys) ==
    LET n == Len(keys)
        found == [i \in 1..(Len(dcts) * n) |->
                     _as_str(dcts[((i - 1) \div n) + 1][keys[((i - 1) % n) + 1]])]
        hits == SelectSeq(found, LAMBDA v : v # None)
    IN IF hits = <<>> THEN None ELSE hits[1]

\* The first two spellings of the entity id.
EntityIdKeys == <<"entity_id", "entityId">>

\* mapper._best_effort_entity_id, the entity_id of normalize_to_business_event
_best_effort_entity_id(payload) ==
    _first_nonempty_str(mapper_candidate_dicts(payload), EntityIdKeys)

\* RabbitMQConsumer._first_nonempty(payload_obj, keys)
consumer_first_nonempty(payload_obj, keys) ==
    _first_nonempty_str(consumer_candidate_dicts(payload_obj), keys)

SubDicts(name) ==
    {NotADict,
     [is_dict |-> TRUE, entity_id |-> None, entityId |-> None],
     [is_dict |-> TRUE, entity_id |-> name, entityId |-> None],
     [is_dict |-> TRUE, entity_id |-> None, entityId |-> name]}

NestedPayloads ==
    {[top |-> [is_dict |-> TRUE, entity_id |-> a, entityId |-> b], meta |-> m, data |-> d,
      payload |-> p, event |-> e, properties |-> q] :
        a \in {None, "  ", "top1"}, b \in {None, "top2"},
        m \in SubDicts("meta"), d \in SubDicts("data"), p \in SubDicts("payload"),
        e \in SubDicts("event"), q \in SubDicts("properties")}

CandidateCalls ==
    {Pending(fn, p) : fn \in {"_best_effort_entity_id", "_first_nonempty"},
                      p \in NestedPayloads}

BestEffortEntityId ==
    /\ call.pc = "called"
    /\ call.fn = "_best_effort_entity_id"
    /\ call' = Returned(_best_effort_entity_id(call.in))
    /\ UNCHANGED xfvars

FirstNonempty ==
    /\ call.pc = "called"
    /\ call.fn = "_first_nonempty"
    /\ call' = Returned(consumer_first_nonempty(call.in, EntityIdKeys))
    /\ UNCHANGED xfvars

MAX_FUTURE_SKEW_SECONDS == 10 * 60
MAX_PAST_AGE_DAYS == 365

\* timedelta(days=1) in seconds; datetimes are counted in seconds.
SecondsPerDay == 86400

\* ensure_utc: a naive datetime raises ValueError, an aware one is its instant.
ensure_utc(dt) ==
    IF dt.aware THEN dt.t ELSE "ValueError"

\* validate_event_timestamp(dt, now): which error it raises, or "ok".
validate_event_timestamp(dt, now_utc) ==
    IF ~dt.aware THEN "not_aware"
    ELSE LET ts == ensure_utc(dt)
         IN IF ts > now_utc + MAX_FUTURE_SKEW_SECONDS THEN "too_far_in_the_future"
            ELSE IF ts < now_utc - MAX_PAST_AGE_DAYS * SecondsPerDay THEN "too_far_in_the_past"
            ELSE "ok"

\* Distances of the timestamp from now, in seconds: around both bounds, and
\* 5 minutes, 20 minutes ahead and 400 days back.
TimestampOffsets ==
    {0, 1, 0 - 1, 300, 599, 600, 601, 1200,
     0 - (365 * 86400 - 1), 0 - (365 * 86400), 0 - (365 * 86400 + 1), 0 - (400 * 86400)}

Nows == {1700000000, 1700000001}

TimestampCalls ==
    {Pending("validate_event_timestamp",
             [dt |-> [aware |-> a, t |-> now + d], now |-> now]) :
        a \in BOOLEAN, d \in TimestampOffsets, now \in Nows}

ValidateTimestamp ==
    /\ call.pc = "called"
    /\ call.fn = "validate_event_timestamp"
    /\ call' = Returned(validate_event_timestamp(call.in.dt, call.in.now))
    /\ UNCHANGED xfvars

\* Error numbers of the store: the two duplicate-key numbers, a deadlock, a
\* lost connection.
DuplicateKeyNumbers == {2601, 2627}
OtherErrorNumbers == {1205, 10054}

\* What the INSERT of a claim does: it goes in, or it raises a DBAPIError with
\* an error number and a message text; "mentions" are the numbers that the
\* variable parts of the text happen to spell (a process id, a key value).
ClaimOutcomes(id, led) ==
    IF id \in led
    THEN {[kind |-> "error", number |-> n, mentions |-> {}] : n \in DuplicateKeyNumbers}
    ELSE {[kind |-> "inserted", number |-> 0, mentions |-> {}]}
         \cup {[kind |-> "error", number |-> n, mentions |-> ms] :
                 n \in OtherErrorNumbers, ms \in SUBSET DuplicateKeyNumbers}

\* "2601" in msg or "2627" in msg: the text of an error holds its own number
\* and whatever its variable parts spell.
MessageContains(outcome, n) ==
    outcome.number = n \/ n \in outcome.mentions

\* try_claim_event_id and try_claim_fingerprint (the same code on two tables):
\* True after the INSERT, False when the text of the DBAPIError contains 2601
\* or 2627, else the error is raised again.
try_claim_event_id(outcome) ==
    IF outcome.kind = "inserted" THEN "True"
    ELSE IF MessageContains(outcome, 2601) \/ MessageContains(outcome, 2627) THEN "False"
    ELSE "raise"

ClaimIds == {"k1", "k2"}

ClaimCalls ==
    {Pending("try_claim_event_id", [id |-> id, led |-> led]) :
        id \in ClaimIds, led \in SUBSET ClaimIds}

\* One call of try_claim_event_id / try_claim_fingerprint against the store.
TryClaim ==
    /\ call.pc = "called"
    /\ call.fn = "try_claim_event_id"
    /\ \E outcome \in ClaimOutcomes(call.in.id, call.in.led) :
         call' = Returned([outcome |-> outcome,
                           result |-> try_claim_event_id(outcome),
                           led |-> IF outcome.kind = "inserted"
                                   THEN call.in.led \cup {call.in.id}
                                   ELSE call.in.led])
    /\ UNCHANGED xfvars

InitFn ==
    \/ call \in TimestampCalls
    \/ call \in ClaimCalls
    \/ call \in FingerprintCalls
    \/ call \in OrderIdCalls
    \/ call \in RowCalls
    \/ call \in CandidateCalls


\* ------------------------------------------------- consumer run loop

\* RabbitMQConsumer.run and _run_once as one coroutine: where it stands
\* (pc), the current backoff, and the message it is handling.  fails counts
\* the failed cycles since the last cycle that ended without exception, and
\* wait is the argument of the asyncio.sleep in progress.
MessageTags == 1..MaxMessages

NotStarted ==
    [pc |-> "not_started", backoff |-> 0, fails |-> 0, wait |-> 0,
     msg |-> 0, action |-> None, connectedAfterStop |-> FALSE]

\* A message as the broker and the store see it.
FreshMessage ==
    [at |-> "unsent", started |-> FALSE, startedAfterStop |-> FALSE,
     receivedAfterStop |-> FALSE, stopWhileHandled |-> FALSE,
     persisted |-> FALSE, dead_lettered |-> FALSE]

RunIdle ==
    /\ stop_event = FALSE
    /\ storeUp = TRUE
    /\ run = NotStarted
    /\ msgs = [m \in MessageTags |-> FreshMessage]

\* _amain: the flag is clear, the handlers are installed, run() is entered.
InitRun ==
    /\ stop_event = FALSE
    /\ storeUp \in BOOLEAN
    /\ run = [NotStarted EXCEPT !.pc = "ensure_ops"]
    /\ msgs = [m \in MessageTags |-> FreshMessage]

never_set(flag) ==
    FALSE

\* asyncio.Event.is_set
is_set(flag) ==
    flag

Min(a, b) ==
    IF a < b THEN a ELSE b

\* backoff = min(backoff * 2.0, 30.0)
next_backoff(backoff) ==
    Min(backoff * BackoffFactor, MaxBackoff)

\* Closing the connection returns every delivered, unsettled message to the
\* queue.
Requeued(ms) ==
    [m \in MessageTags |->
        IF ms[m].at = "held" THEN [ms[m] EXCEPT !.at = "queued"] ELSE ms[m]]

\* _run_once returned without exception: backoff = 1.0, back to the test of
\* the while loop.
CleanCycle(r) ==
    [r EXCEPT !.pc = "loop_test", !.backoff = InitialBackoff, !.fails = 0,
              !.wait = 0, !.msg = 0, !.action = None]

\* _run_once raised an Exception: await asyncio.sleep(backoff).
FailedCycle(r) ==
    [r EXCEPT !.pc = "sleeping", !.fails = r.fails + 1, !.wait = r.backoff,
              !.msg = 0, !.action = None]

\* _install_signal_handlers._stop on SIGINT or SIGTERM.
SignalStop ==
    /\ run.pc \notin {"not_started", "returned", "raised"}
    /\ ~stop_event
    /\ stop_event' = TRUE
    /\ msgs' = IF run.msg \in MessageTags
                  THEN [msgs EXCEPT ![run.msg].stopWhileHandled = TRUE]
                  ELSE msgs
    /\ UNCHANGED <<storeUp, run>>
    /\ UNCHANGED xrvars

\* self.ensure_ops(), before the loop and outside its try; then
\* backoff = 1.0.
EnsureOps ==
    /\ run.pc = "ensure_ops"
    /\ run' = IF storeUp
                 THEN [run EXCEPT !.pc = "loop_test", !.backoff = InitialBackoff]
                 ELSE [run EXCEPT !.pc = "raised"]
    /\ UNCHANGED <<stop_event, storeUp, msgs>>
    /\ UNCHANGED xrvars

\* while not stop_event.is_set(): ... _run_once starts to connect.
LoopTest ==
    /\ run.pc = "loop_test"
    /\ run' = IF is_set(stop_event)
                 THEN [run EXCEPT !.pc = "returned"]
                 ELSE [run EXCEPT !.pc = "connecting",
                                  !.connectedAfterStop =
                                      run.connectedAfterStop \/ stop_event]
    /\ UNCHANGED <<stop_event, storeUp, msgs>>
    /\ UNCHANGED xrvars

\* connect_robust, the channel and the topology succeed: the iterator waits
\* for the next message.
ConnectOk ==
    /\ run.pc = "connecting"
    /\ run' = [run EXCEPT !.pc = "waiting"]
    /\ UNCHANGED <<stop_event, storeUp, msgs>>
    /\ UNCHANGED xrvars

\* An await of _run_once raises (connection refused or lost, channel
\* closed): except Exception, sleep.
CycleFails ==
    /\ run.pc \in {"connecting", "waiting"}
    /\ run.fails < MaxFailures
    /\ run' = FailedCycle(run)
    /\ msgs' = Requeued(msgs)
    /\ UNCHANGED <<stop_event, storeUp>>
    /\ UNCHANGED xrvars

\* The sleep ends: backoff = min(backoff * 2.0, 30.0), back to the test.
Wake ==
    /\ run.pc = "sleeping"
    /\ run' = [run EXCEPT !.pc = "loop_test", !.wait = 0,
                          !.backoff = next_backoff(run.backoff)]
    /\ UNCHANGED <<stop_event, storeUp, msgs>>
    /\ UNCHANGED xrvars

\* The iterator ends without a message (the queue's consumer is closed):
\* _run_once returns.
IteratorEnds ==
    /\ run.pc = "waiting"
    /\ run' = CleanCycle(run)
    /\ msgs' = Requeued(msgs)
    /\ UNCHANGED <<stop_event, storeUp>>
    /\ UNCHANGED xrvars

\* A producer publishes a message to the queue; the tag of a settled message
\* is used again for a new one.
Publish(m) ==
    /\ run.pc \notin {"not_started"}
    /\ msgs[m].at \in {"unsent", "acked", "rejected"}
    /\ msgs' = [msgs EXCEPT ![m] = [FreshMessage EXCEPT !.at = "queued"]]
    /\ UNCHANGED <<stop_event, storeUp, run>>
    /\ UNCHANGED xrvars

\* async for msg in it: if stop_event.is_set(): break; else
\* _handle_message(msg) begins.
Receive(m) ==
    /\ run.pc = "waiting"
    /\ msgs[m].at = "queued"
    /\ IF is_set(stop_event)
          THEN /\ run' = CleanCycle(run)
               /\ msgs' = Requeued([msgs EXCEPT ![m].at = "held",
                                                ![m].receivedAfterStop = TRUE])
          ELSE /\ run' = [run EXCEPT !.pc = "processing", !.msg = m]
               /\ msgs' = [msgs EXCEPT ![m].at = "held",
                                       ![m].started = TRUE,
                                       ![m].startedAfterStop = stop_event,
                                       ![m].receivedAfterStop =
                                           msgs[m].receivedAfterStop \/ stop_event]
    /\ UNCHANGED <<stop_event, storeUp>>
    /\ UNCHANGED xrvars

\* _process_message: the event (or its duplicate claim) is committed, or a
\* dead letter is; the result is the action "ack" or "reject".
Process ==
    /\ run.pc = "processing"
    /\ \E outcome \in {"persisted", "dead_lettered"}, action \in {"ack", "reject"} :
          /\ outcome = "persisted" => action = "ack"
          /\ msgs' = [msgs EXCEPT ![run.msg].persisted = (outcome = "persisted"),
                                  ![run.msg].dead_lettered = (outcome = "dead_lettered")]
          /\ run' = [run EXCEPT !.pc = "settling", !.action = action]
    /\ UNCHANGED <<stop_event, storeUp>>
    /\ UNCHANGED xrvars

\* finally: msg.reject(requeue=False) or msg.ack(); the iterator waits
\* again.
SettleMessage ==
    /\ run.pc = "settling"
    /\ msgs' = [msgs EXCEPT ![run.msg].at =
                                IF run.action = "reject" THEN "rejected" ELSE "acked"]
    /\ run' = [run EXCEPT !.pc = "waiting", !.msg = 0, !.action = None]
    /\ UNCHANGED <<stop_event, storeUp>>
    /\ UNCHANGED xrvars

\* _amain: finally: stop_event.set().
AmainFinally ==
    /\ run.pc \in {"returned", "raised"}
    /\ ~stop_event
    /\ stop_event' = TRUE
    /\ UNCHANGED <<storeUp, run, msgs>>
    /\ UNCHANGED xrvars

\* The steps the event loop takes on its own once they are ready; the
\* arrival of a message, of a signal or of a failure is up to the
\* environment.
RunSteps ==
    \/ EnsureOps
    \/ LoopTest
    \/ ConnectOk
    \/ Wake
    \/ \E m \in MessageTags : Receive(m)
    \/ Process
    \/ SettleMessage
    \/ AmainFinally

\* The consumers start; the orchestrator stays idle.
InitC ==
    InitConsumer /\ OrchIdle /\ HttpIdle /\ FnIdle /\ RunIdle

\* The orchestrator starts; the consumers stay idle.
InitO ==
    InitOrch /\ ConsumerIdle /\ HttpIdle /\ FnIdle /\ RunIdle

\* The HTTP endpoint starts; consumers and orchestrator stay idle.
InitH ==
    InitHttp /\ ConsumerIdle /\ OrchIdle /\ FnIdle /\ RunIdle

NextConsumer ==
    \/ \E c \in Consumers : HandleMessage(c)
    \/ \E c \in Consumers : TxClaim(c)
    \/ \E c \in Consumers : TxInsert(c)
    \/ \E c \in Consumers : TxInsertOrder(c)
    \/ \E c \in Consumers : TxCommit(c)
    \/ \E c \in Consumers : WriteDeadLetter(c)
    \/ \E c \in Consumers : Settle(c)
    \/ \E c \in Consumers : Crash(c)
    \/ StoreFail
    \/ StoreRecover

SpecConsumer ==
    InitC /\ [][NextConsumer]_vars

NextOrch ==
    \/ \E p \in Procs : Invoke(p)
    \/ \E p \in Procs : Reap(p)
    \/ \E p \in Procs : TryLock(p)
    \/ \E p \in Procs : PipelineReap(p)
    \/ \E p \in Procs : StartRun(p)
    \/ \E p \in Procs : StageEnd(p)
    \/ \E p \in Procs : FinishRun(p)
    \/ \E p \in Procs : Release(p)
    \/ \E p \in Procs : SkipStart(p)
    \/ \E p \in Procs : SkipFinish(p)
    \/ \E p \in Procs : OrchCrash(p)
    \/ Tick

SpecOrch ==
    InitO /\ [][NextOrch]_vars

NextHttp ==
    \/ HttpReceive
    \/ HttpInvalidJson
    \/ HttpBegin
    \/ HttpIngestItem
    \/ HttpCommit

SpecHttp ==
    InitH /\ [][NextHttp]_vars

\* Function calls only; consumers, orchestrator and endpoint stay idle.
InitF ==
    InitFn /\ ConsumerIdle /\ OrchIdle /\ HttpIdle /\ RunIdle

NextFn ==
    \/ ComputeFingerprint
    \/ BestEffortOrderId
    \/ BuildConsumerRows
    \/ BuildHttpRow
    \/ ValidateTimestamp
    \/ TryClaim
    \/ BestEffortEntityId
    \/ FirstNonempty

SpecFn ==
    InitF /\ [][NextFn]_vars

\* The run loop of one consumer process; the other components stay idle.
InitR ==
    InitRun /\ ConsumerIdle /\ OrchIdle /\ HttpIdle /\ FnIdle

NextRun ==
    \/ SignalStop
    \/ EnsureOps
    \/ LoopTest
    \/ ConnectOk
    \/ CycleFails
    \/ Wake
    \/ IteratorEnds
    \/ \E m \in MessageTags : Publish(m)
    \/ \E m \in MessageTags : Receive(m)
    \/ Process
    \/ SettleMessage
    \/ AmainFinally

SpecRun ==
    InitR /\ [][NextRun]_vars

\* The same loop under the scheduling of the event loop: a coroutine that
\* can take its next step takes it.
SpecRunFair ==
    InitR /\ [][NextRun]_vars /\ WF_vars(RunSteps)

\* -------------------------------------------------------------- properties

DeadLettersOf(tag) ==
    {i \in DOMAIN dead_letters : dead_letters[i].tag = tag}

EventsOfTag(tag) ==
    {r \in events : r.event_id = tag}

CanonicalEvents(fp) ==
    {r \in events : r.fp = fp /\ r.table = PrimaryTable(fp[1])}

\* C1: a message whose fingerprint was committed by an earlier processing and
\* whose claim statement is executed again gets a false claim: it inserts no
\* row, writes no dead letter and is acked, and exactly one canonical event
\* exists for the fingerprint.  (If the store fails in all attempts of the
\* second processing, there is no claim result and the message goes the
\* db_insert_failed way, still without any insert.)
C1_DuplicateSkipped ==
    \A h \in hist :
        h.dupAtStart =>
            /\ ~h.inserted
            /\ EventsOfTag(h.tag) = {}
            /\ Cardinality(CanonicalEvents(h.fp)) = 1
            /\ h.stage \in {None, "db_insert_failed"}
            /\ h.stage = None =>
                  /\ h.dup
                  /\ h.settle = "ack"
                  /\ DeadLettersOf(h.tag) = {}

C1_Witness ==
    \E h \in hist : h.dupAtStart /\ h.dup /\ h.settle = "ack"

\* C2: in every committed state of the store a fingerprint is in the ledger
\* exactly when all event rows of its message are present (the row of the
\* routing key's table and, for order.paid, the order_events row with the same
\* event id); no event row exists without its fingerprint and its sibling row.
C2_ClaimInsertAtomic ==
    /\ \A fp \in ledger :
          \E t \in 1..nextTag :
             \A tb \in TargetTables(fp[1]) :
                [table |-> tb, event_id |-> t, fp |-> fp] \in events
    /\ \A r \in events :
          /\ r.fp \in ledger
          /\ \A tb \in TargetTables(r.fp[1]) :
                [table |-> tb, event_id |-> r.event_id, fp |-> r.fp] \in events

C2_Witness ==
    \E c \in Consumers :
        /\ con[c].undone
        /\ con[c].pc = "claim"
        /\ HasOrderRow(con[c].rk)
        /\ con[c].fp \notin ledger

\* C3: of the concurrent processings of one fingerprint at most one commits a
\* successful claim; a processing that ends without an insert and without a
\* failure saw a clean duplicate, wrote no dead letter and acked; no two open
\* transactions hold the same claim and the store never holds two events for
\* one fingerprint.
C3_OneClaimPerFingerprint ==
    /\ \A h1, h2 \in hist :
          (h1.fp = h2.fp /\ h1.inserted /\ h2.inserted) => h1.tag = h2.tag
    /\ \A h \in hist :
          (h.stage = None /\ ~h.inserted) =>
              (h.dup /\ h.settle = "ack" /\ DeadLettersOf(h.tag) = {}
                     /\ EventsOfTag(h.tag) = {})
    /\ \A c1, c2 \in Consumers :
          (c1 # c2 /\ con[c1].txClaim /\ con[c2].txClaim) => con[c1].fp # con[c2].fp
    /\ \A r1, r2 \in events :
          (r1.fp = r2.fp /\ r1.table = r2.table) => r1.event_id = r2.event_id

C3_Witness ==
    \E h1, h2 \in hist :
        /\ h1.fp = h2.fp
        /\ h1.inserted
        /\ h2.dup
        /\ ~h2.dupAtStart

\* C6: every message that fails at decoding, at normalization or, after the
\* last of the InsertAttempts attempts, in the claim+insert transaction has one
\* dead letter with the reason of its failure, is settled with reject if a DLQ
\* is configured and with ack otherwise, and has no event row.
C6_FailureDeadLettered ==
    /\ \A h \in hist :
          /\ h.stage = "invalid_json" <=> h.fp = <<>>
          /\ h.stage = "normalize_failed" <=> (h.fp # <<>> /\ h.fp[3] = "{ts:old}")
          /\ h.stage # None =>
                /\ ~h.inserted
                /\ EventsOfTag(h.tag) = {}
                /\ Cardinality(DeadLettersOf(h.tag)) = 1
                /\ \A i \in DeadLettersOf(h.tag) : dead_letters[i].reason = h.stage
                /\ h.settle = (IF dlq THEN "reject" ELSE "ack")
          /\ h.stage = None => (h.inserted \/ h.dup)
    /\ \A c \in Consumers :
          con[c].reason = "db_insert_failed" => con[c].attempt = InsertAttempts

\* C7: when the dead-letter write itself fails in all its attempts, the
\* message is still settled as its original failure decides: reject without
\* requeue if a DLQ is configured, ack otherwise.
C7_DeadLetterFailureKeepsOutcome ==
    \A h \in hist :
        (h.stage # None /\ ~h.dlWritten) =>
            h.settle = (IF dlq THEN "reject" ELSE "ack")

\* C8: every message handed to _handle_message gets exactly one settlement
\* attempt, an ack or a reject: a delivered message without one is still being
\* handled (or its process died), no message has two, and an error of the ack
\* or reject call never ends the consume loop.
C8_ExactlyOneSettlement ==
    /\ \A t \in 1..nextTag :
          /\ Len(settleLog[t]) <= 1
          /\ Len(settleLog[t]) = 0 =>
                \/ t \in died
                \/ \E c \in Consumers : con[c].tag = t /\ con[c].pc # "idle"
          /\ Len(settleLog[t]) = 1 =>
                /\ settleLog[t][1] \in {"ack", "reject"}
                /\ \E h \in hist : h.tag = t /\ h.settle = settleLog[t][1]
                /\ \A c \in Consumers : con[c].tag # t
    /\ \A t \in (nextTag + 1)..MaxDeliveries : settleLog[t] = <<>>
    /\ \A h1, h2 \in hist : h1.tag = h2.tag => h1 = h2
    /\ \A c \in Consumers : con[c].pc # "loop_crashed"

C8_Witness ==
    \E h \in hist :
        /\ h.stage # None
        /\ ~h.dlWritten
        /\ Len(settleLog[h.tag]) = 1

Terminal ==
    {"success", "failed", "skipped"}

Holds(p) ==
    InRun(p) /\ orch[p].res = 0

\* C4: two invocations are never both inside the locked region (where the
\* stages run) at once; an invocation that tries the lock while another one
\* holds it gets a negative result at once, runs no stage, and ends with
\* status skipped (after recording the skipped run, where it records one);
\* only the holder of the lock runs stages.
C4_MutualExclusion ==
    /\ \A p, q \in Procs : p # q => ~(InRun(p) /\ InRun(q))
    /\ \A p \in Procs : InRun(p) => (lockHolder = p /\ orch[p].res = 0)
    /\ \A p \in Procs : orch[p].stagesRun > 0 => orch[p].res = 0
    /\ \A p \in Procs :
          orch[p].sawHeld =>
             /\ orch[p].res < 0
             /\ orch[p].stagesRun = 0
             /\ orch[p].pc \in {"skip_start", "skip_finish", "done", "crashed"}
             /\ orch[p].pc = "done" => orch[p].result = "skipped"
             /\ \E q \in Procs \ {p} : orch[q].res = 0
    /\ \A p \in Procs : orch[p].pc = "lock" => ENABLED TryLock(p)

C4_Witness ==
    \E p, q \in Procs :
        /\ p # q
        /\ orch[p].pc = "done"
        /\ orch[p].sawHeld
        /\ orch[p].result = "skipped"
        /\ orch[q].pc = "in_stage"

C9_RunRowLifecycle ==
    /\ [](\A i \in DOMAIN runs :
            /\ runs[i].status \in {"running"} \cup Terminal
            /\ runs[i].finished_at = NULL <=> runs[i].status = "running")
    /\ [][/\ Len(runs') >= Len(runs)
          /\ \A i \in DOMAIN runs :
                /\ runs[i].finished_at # NULL => runs'[i] = runs[i]
                /\ runs'[i] # runs[i] =>
                      (runs'[i].finished_at # NULL /\ runs'[i].status \in Terminal)
          /\ \A i \in DOMAIN runs' \ DOMAIN runs :
                runs'[i].status = "running" /\ runs'[i].finished_at = NULL]_vars

C9_Witness ==
    \E p \in Procs :
        /\ orch[p].pc \in {"release", "done"}
        /\ orch[p].finishOk
        /\ orch[p].status = "success"
        /\ orch[p].run_id > 0
        /\ runs[orch[p].run_id].status = "failed"
        /\ runs[orch[p].run_id].error_message = "auto_failed_stale"

\* C10: a run of the reaper changes exactly the rows with status running,
\* finished_at null and started_at older than the threshold (each becomes
\* failed with finished_at set) and leaves every other row unchanged.
C10_ReaperExactlyStale ==
    [][\A p \in Procs :
          (/\ orch[p].pc \in {"reap", "pipeline_reap"}
           /\ orch'[p].pc \in {"lock", "start_run"})
             => \A i \in DOMAIN runs :
                   IF /\ runs[i].status = "running"
                      /\ runs[i].finished_at = NULL
                      /\ runs[i].started_at < clock - StaleMinutes
                   THEN runs'[i].status = "failed" /\ runs'[i].finished_at # NULL
                   ELSE runs'[i] = runs[i]]_vars

IsPrefix(a, b) ==
    Len(a) <= Len(b) /\ a = SubSeq(b, 1, Len(a))

Position(x, seq) ==
    IF \E i \in DOMAIN seq : seq[i] = x
    THEN CHOOSE i \in DOMAIN seq : seq[i] = x
    ELSE 0

\* The steps of the run of p, as run_pipeline lists them.
PlannedSteps(p) ==
    Steps(orch[p].seed_mode, settings.etl_enable_silver, settings.etl_enable_gold)

\* C11: within one run the enabled stages run one at a time in the order
\* seed, silver, gold (gold only after silver has succeeded); after a stage
\* that raises or returns non-zero no later stage starts, and the run row ends
\* as failed with that stage's error text; the row ends as success only if
\* every enabled stage succeeded.
C11_StagesInOrderFailFast ==
    \A p \in Procs :
        orch[p].run_id > 0 /\ orch[p].kind # None /\ orch[p].res = 0 =>
           LET all == PlannedSteps(p) IN
           /\ IsPrefix(orch[p].doneStages, all)
           /\ orch[p].pc = "in_stage" =>
                 /\ orch[p].failedStage = None
                 /\ Head(orch[p].steps) = all[Len(orch[p].doneStages) + 1]
                 /\ (Head(orch[p].steps) = "04_build_gold" /\ settings.etl_enable_silver)
                       => Position("03_build_silver", orch[p].doneStages) > 0
           /\ orch[p].failedStage # None =>
                 /\ orch[p].status = "failed"
                 /\ orch[p].error_message = StageErrorText(orch[p].failedStage)
                 /\ orch[p].doneStages \o <<orch[p].failedStage>> =
                       SubSeq(all, 1, Len(orch[p].doneStages) + 1)
           /\ (orch[p].pc \in {"release", "done"} /\ orch[p].finishOk) =>
                 /\ runs[orch[p].run_id].status = "success" => orch[p].doneStages = all
                 /\ orch[p].failedStage # None =>
                       /\ runs[orch[p].run_id].status = "failed"
                       /\ runs[orch[p].run_id].error_message =
                             StageErrorText(orch[p].failedStage)

\* Rows the store holds now that it did not hold when the request began.
NewRows ==
    bronze \ http.preBronze

NewDeadCount ==
    Len(deadRows) - http.preDead

Answered ==
    http.pc = "responded"

\* C12: POST /events with no server-side secret configured is answered 503
\* whatever key header is sent; with a secret configured a missing or
\* non-matching header is answered 401; in both cases no event row and no
\* dead-letter row is written, and only a request with the matching key goes
\* past the check.
C12_ApiKeyGate ==
    /\ (Answered /\ expectedKey \in {None, ""}) =>
          (http.status = 503 /\ NewRows = {} /\ NewDeadCount = 0)
    /\ (Answered /\ expectedKey \notin {None, ""} /\ http.header # expectedKey) =>
          (http.status = 401 /\ NewRows = {} /\ NewDeadCount = 0)
    /\ (Answered /\ http.status = 401) =>
          (expectedKey \notin {None, ""} /\ http.header # expectedKey)
    /\ http.pc \in {"invalid_json", "begin", "ingest"} =>
          (expectedKey \notin {None, ""} /\ http.header = expectedKey)
    /\ (Answered /\ http.status = 202) =>
          (expectedKey \notin {None, ""} /\ http.header = expectedKey)

C12_Witness ==
    /\ Answered
    /\ expectedKey = ""
    /\ http.header = ""
    /\ http.status = 503
    /\ reqCount = MaxRequests

Authenticated ==
    AuthStatus(expectedKey, http.header) = 200

IsBatch ==
    http.body.shape \notin {"empty", "bad_json"}

LogCount(outcomes) ==
    Cardinality({i \in DOMAIN http.log : http.log[i].outcome \in outcomes})

\* C13: every item of a batch given to ingest_events is counted exactly once,
\* as accepted or as dead_lettered, and a failing item never keeps the items
\* after it from being processed; the response to an authenticated request
\* whose transaction went through is 202 with exactly these two counters.
C13_EveryItemCounted ==
    /\ http.pc = "ingest" =>
          /\ Len(http.log) = http.idx - 1
          /\ http.accepted + http.dead_lettered = Len(http.log)
          /\ http.accepted = LogCount({"inserted", "duplicate"})
          /\ http.dead_lettered = LogCount({"failed"})
    /\ (Answered /\ Authenticated /\ IsBatch) =>
          /\ http.status \in {202, 503}
          /\ http.status = 503 <=> http.txFailed
          /\ http.status = 202 =>
                /\ Len(http.log) = Len(http.events)
                /\ http.result = <<http.accepted, http.dead_lettered>>
                /\ http.accepted + http.dead_lettered = Len(http.events)
                /\ http.accepted = LogCount({"inserted", "duplicate"})
    /\ (Answered /\ Authenticated /\ http.body.shape = "empty") =>
          (http.status = 202 /\ http.result = <<0, 0>>)

C13_Witness ==
    /\ Answered
    /\ http.status = 202
    /\ Len(http.events) = 2
    /\ http.log[1].outcome = "failed"
    /\ ~http.log[1].dlWritten
    /\ http.log[2].outcome = "inserted"
    /\ http.result = <<1, 1>>

\* C14: in a request answered 202 every failed item has exactly one dead-letter
\* row: the number of dead-letter rows the request commits equals the
\* dead_lettered value it returns, and the accepted value counts the other
\* items of the batch.
C14_OneDeadLetterPerFailure ==
    (Answered /\ Authenticated /\ http.status = 202) =>
        /\ NewDeadCount = http.result[2]
        /\ \A i \in DOMAIN http.log :
              http.log[i].outcome = "failed" => http.log[i].dlWritten
        /\ http.result[1] = LogCount({"inserted", "duplicate"})

NewDead ==
    SubSeq(deadRows, http.preDead + 1, Len(deadRows))

ReasonCount(kind) ==
    Cardinality({i \in DOMAIN NewDead : NewDead[i].reason[1] = kind})

RowOf(item) ==
    <<HttpTable(item.event_type), item.event_id>>

\* C15: a valid event whose event_id is already in its target table, and whose
\* INSERT meets no other error, is a silent duplicate: it is counted accepted,
\* gets no dead letter and the table keeps its one row for that id; a request
\* that only re-posts stored events changes nothing in the store.  A valid
\* event whose writer raised any other error is counted dead_lettered, and in
\* a request answered 202 its dead letter has reason db_insert_error:<type>.
C15_DuplicateEventIdIgnored ==
    /\ \A i \in DOMAIN http.log :
          LET e == http.log[i]
          IN /\ (e.existed /\ ~e.writerError) =>
                    (e.outcome = "duplicate" /\ ~e.dlWritten)
             /\ e.outcome = "duplicate" => e.existed
             /\ (e.item.kind = "valid" /\ e.outcome = "failed") => e.writerError
    /\ http.pc = "ingest" =>
          \A i \in DOMAIN http.log :
             http.log[i].outcome = "duplicate" =>
                RowOf(http.log[i].item) \in bronze \cup http.txRows
    /\ (Answered /\ Authenticated /\ IsBatch /\ http.status = 202) =>
          /\ (\A i \in DOMAIN http.log : http.log[i].outcome = "duplicate") =>
                (bronze = http.preBronze /\ NewDead = <<>>
                    /\ http.result = <<Len(http.events), 0>>)
          /\ \A i \in DOMAIN http.log :
                http.log[i].outcome = "duplicate" => RowOf(http.log[i].item) \in bronze
          /\ ReasonCount("db_insert_error") =
                Cardinality({i \in DOMAIN http.log :
                               http.log[i].item.kind = "valid"
                                 /\ http.log[i].outcome = "failed"})
          /\ \A i \in DOMAIN NewDead :
                NewDead[i].reason[1] = "db_insert_error" =>
                   \E j \in DOMAIN http.log :
                      /\ http.log[j].outcome = "failed"
                      /\ http.log[j].item.kind = "valid"
                      /\ NewDead[i].reason[2] = http.log[j].item.event_type

C15_Witness ==
    /\ Answered
    /\ http.status = 202
    /\ reqCount = MaxRequests
    /\ Len(http.events) = 2
    /\ http.log[1].outcome = "duplicate"
    /\ RowOf(http.log[1].item) \in http.preBronze
    /\ http.log[2].outcome = "failed"
    /\ http.log[2].item.kind = "valid"
    /\ http.result = <<1, 1>>
    /\ NewDead = <<[source |-> "web", reason |-> <<"db_insert_error", "order.created">>]>>

\* C16: a request whose transaction could not be opened or committed is
\* answered 503 and leaves nothing of its batch in the store, neither event
\* rows nor dead letters; nothing of a batch is in the store before its commit;
\* a batch answered 202 has all its writes, event rows and dead letters,
\* committed by the one transaction.
C16_BatchAllOrNothing ==
    /\ http.pc \in {"begin", "ingest", "invalid_json"} =>
          (bronze = http.preBronze /\ NewDead = <<>>)
    /\ (Answered /\ Authenticated) =>
          /\ http.txFailed <=> http.status = 503
          /\ http.status = 503 => (bronze = http.preBronze /\ NewDead = <<>>)
          /\ (http.status = 202 /\ IsBatch) =>
                /\ bronze = http.preBronze \cup http.txRows
                /\ NewDead = http.txDead

C16_Witness ==
    /\ Answered
    /\ http.status = 503
    /\ ~http.connBroken
    /\ Len(http.log) = 2
    /\ \E r \in http.txRows : r \notin http.preBronze
    /\ http.txDead # <<>>
    /\ bronze = http.preBronze
    /\ bronze # {}

FnReturned(fn) ==
    call.fn = fn /\ call.pc = "returned"

\* C17: every event row the consumer or the HTTP endpoint writes has a non-null
\* event_id, event_type, event_timestamp and session_id, for every routing key
\* and also when the payload has no session id and no correlation id.
C17_RowsHaveSessionId ==
    (FnReturned("_insert_event_sync") \/ FnReturned("insert_click")) =>
        \A r \in call.out.rows :
            /\ r.event_id # None
            /\ r.event_type # None
            /\ r.event_timestamp # None
            /\ r.session_id # None

\* validate_event_timestamp rejects an aware timestamp exactly when it is more
\* than 10 minutes after now or more than 365 days before now.
TimestampRejectedExactly ==
    (FnReturned("validate_event_timestamp") /\ call.in.dt.aware) =>
        LET ahead == call.in.dt.t - call.in.now
        IN /\ call.out = "too_far_in_the_future" <=> ahead > 600
           /\ call.out = "too_far_in_the_past" <=> 0 - ahead > 365 * 86400
           /\ call.out \in {"ok", "too_far_in_the_future", "too_far_in_the_past"}

TimestampOnBoundAccepted ==
    /\ FnReturned("validate_event_timestamp")
    /\ call.in.dt.aware
    /\ call.in.dt.t - call.in.now \in {600, 0 - 365 * 86400}
    /\ call.out = "ok"

\* C18: validate_event_timestamp rejects exactly the timestamps more than 10
\* minutes ahead of now or more than 365 days behind it, and an item posted
\* with a rejected timestamp is not persisted and, in a request answered 202,
\* has a dead letter with reason validation_error:<event_type>.
C18_RejectedTimestampDeadLettered ==
    /\ TimestampRejectedExactly
    /\ \A i \in DOMAIN http.log :
          http.log[i].item.kind = "bad_timestamp" => http.log[i].outcome = "failed"
    /\ (Answered /\ Authenticated /\ IsBatch /\ http.status = 202) =>
          \A i \in DOMAIN http.log :
             http.log[i].item.kind = "bad_timestamp" =>
                /\ http.log[i].dlWritten
                /\ \E j \in DOMAIN NewDead :
                      NewDead[j].reason = <<"validation_error", http.log[i].item.event_type>>

\* C19: compute_fingerprint yields a 64-character digest, and two calls with
\* the same routing key, the same message id and payloads that are equal as
\* JSON values, whatever the order of their keys at any depth, yield the same
\* digest.
C19_FingerprintKeyOrderStable ==
    FnReturned("compute_fingerprint") =>
        /\ call.out.first.hexlen = 64
        /\ call.out.second.hexlen = 64
        /\ (call.out.message_id2 = call.in.message_id
              /\ JsonEqual(call.in.payload_obj, call.out.payload_obj2)) =>
                 call.out.first = call.out.second

C19_Witness ==
    /\ FnReturned("compute_fingerprint")
    /\ call.out.message_id2 = call.in.message_id
    /\ JsonEqual(call.in.payload_obj, call.out.payload_obj2)
    /\ call.in.payload_obj # call.out.payload_obj2
    /\ \E i \in DOMAIN call.in.payload_obj.o :
          /\ Len(call.in.payload_obj.o[i][2].o) = 2
          /\ \E j \in DOMAIN call.out.payload_obj2.o :
                /\ call.out.payload_obj2.o[j][1] = call.in.payload_obj.o[i][1]
                /\ call.out.payload_obj2.o[j][2] # call.in.payload_obj.o[i][2]
    /\ call.out.first = call.out.second

\* C20: for a payload whose "data" sub-object has order_id = X (X an id that
\* stripping and the 64-character cut leave alone) and that has no top-level
\* order_id, best_effort_order_id returns X, whatever the other keys of the
\* payload and whatever entity_id.
C20_DataOrderIdWins ==
    FnReturned("best_effort_order_id") =>
        LET x == call.in.payload_obj.data.order_id
        IN (x = "X" /\ call.in.payload_obj.top.order_id = None) => call.out = x

\* C21: whenever the consumer acks a message, the message's event is committed
\* in the store, or its fingerprint had already been claimed, or a dead-letter
\* row for the message is committed, also when the store fails meanwhile.
C21_NoSilentLoss ==
    \A h \in hist :
        h.settle = "ack" =>
            \/ h.inserted /\ EventsOfTag(h.tag) # {}
            \/ h.dup /\ h.fp \in ledger
            \/ h.dlWritten /\ DeadLettersOf(h.tag) # {}

\* C22: the run row of a live process that holds the ETL lock is never marked
\* failed by the reaper: it stays running while its stages run, and a run whose
\* stages all succeeded and whose finish_run was executed ends as success.
C22_ReaperSparesLiveRuns ==
    \A p \in Procs :
        /\ (orch[p].pc = "in_stage" /\ lockHolder = p) =>
              runs[orch[p].run_id].status = "running"
        /\ (orch[p].pc = "done" /\ orch[p].result = "success" /\ orch[p].finishOk) =>
              runs[orch[p].run_id].status = "success"

\* C23: try_claim_event_id / try_claim_fingerprint return True exactly when the
\* row was inserted, False exactly when the INSERT failed with a duplicate-key
\* error (the ledger staying as it was), and raise for every other error.
C23_ClaimErrorsClassified ==
    FnReturned("try_claim_event_id") =>
        /\ call.out.result = "True" <=> call.out.outcome.kind = "inserted"
        /\ call.out.result = "False" <=>
              (call.out.outcome.kind = "error"
                 /\ call.out.outcome.number \in DuplicateKeyNumbers)
        /\ call.out.result = "False" => call.out.led = call.in.led
        /\ call.out.result = "True" => call.out.led = call.in.led \cup {call.in.id}

TxStates ==
    {"claim", "insert", "insert_order", "commit"}

\* Steps left, at most, in the processing of a consumer's message.
Rank(c, cs) ==
    CASE cs[c].pc \in TxStates ->
             100 + (InsertAttempts - cs[c].attempt) * 10
                 + (CASE cs[c].pc = "claim" -> 4 [] cs[c].pc = "insert" -> 3
                      [] cs[c].pc = "insert_order" -> 2 [] OTHER -> 1)
      [] cs[c].pc = "dead_letter" -> 10 + (DeadLetterAttempts - cs[c].dlAttempt)
      [] cs[c].pc = "settle" -> 1
      [] OTHER -> 0

\* C24: the processing of a message terminates: every step of it lowers a
\* bounded rank; the claim+insert transaction is attempted at most 5 times and
\* a dead-letter write at most 3 times; a new attempt begins only after a
\* failed one, with that attempt rolled back completely (store and ledger as
\* before it, nothing pending); the error reaches the caller only after the
\* last attempt failed.
C24_BoundedRetries ==
    [][\A c \in Consumers :
          con'[c] # con[c] =>
            /\ con'[c].attempt \in 0..InsertAttempts
            /\ con'[c].dlAttempt \in 0..DeadLetterAttempts
            /\ con[c].pc \notin {"idle", "loop_crashed"} =>
                  (Rank(c, con') < Rank(c, con) /\ Rank(c, con') >= 0)
            /\ (con[c].pc \in TxStates /\ con'[c].pc = "claim") =>
                  /\ ~dbUp
                  /\ con'[c].attempt = con[c].attempt + 1
                  /\ con'[c].pending = {}
                  /\ ~con'[c].txClaim
                  /\ events' = events
                  /\ ledger' = ledger
            /\ (con[c].pc \in TxStates /\ con'[c].pc = "dead_letter") =>
                  /\ con[c].attempt = InsertAttempts
                  /\ con'[c].reason = "db_insert_failed"
                  /\ events' = events
                  /\ ledger' = ledger
            /\ (con[c].pc = "dead_letter" /\ con'[c].pc = "dead_letter") =>
                  con'[c].dlAttempt = con[c].dlAttempt + 1
            /\ (con[c].pc = "dead_letter" /\ con'[c].pc = "settle"
                                         /\ ~con'[c].dlWritten) =>
                  con[c].dlAttempt = DeadLetterAttempts
            /\ (con[c].pc = "commit" /\ dbUp /\ con'[c].pc # "idle") =>
                  con'[c].pc = "settle"
    ]_vars

\* The fifth insert attempt has failed and the third dead-letter attempt runs.
C24_Witness ==
    \E c \in Consumers :
        /\ con[c].pc = "dead_letter"
        /\ con[c].reason = "db_insert_failed"
        /\ con[c].attempt = InsertAttempts
        /\ con[c].dlAttempt = DeadLetterAttempts
        /\ ~dbUp

\* The wait of the sleep after the k-th consecutive failed cycle is
\* min(2^(k-1), 30); the backoff stays within 1..30 and is 1 again after a
\* cycle that ended without exception (fails = 0).
BackoffSchedule ==
    /\ run.pc = "sleeping" =>
          /\ run.fails >= 1
          /\ run.wait = Min(BackoffFactor ^ (run.fails - 1), MaxBackoff)
    /\ run.pc \in {"loop_test", "connecting", "waiting", "processing",
                   "settling", "returned"} =>
          run.backoff = Min(BackoffFactor ^ run.fails, MaxBackoff)
    /\ run.pc \notin {"not_started", "ensure_ops", "raised"} =>
          /\ run.backoff >= InitialBackoff
          /\ run.backoff <= MaxBackoff

\* The sixth and later consecutive failures wait 30 seconds.
BackoffCapped ==
    /\ run.pc = "sleeping"
    /\ run.fails = MaxFailures
    /\ run.wait = MaxBackoff

\* A failure after a clean cycle that followed failures waits 1 second.
BackoffReset ==
    /\ run.pc = "sleeping"
    /\ run.fails = 1
    /\ run.wait = InitialBackoff
    /\ \E m \in MessageTags : msgs[m].at \in {"acked", "rejected"}

\* C25: the reconnect wait after the k-th consecutive failed cycle is
\* min(2^(k-1), 30) seconds, the backoff stays within 1..30 seconds and
\* returns to 1 after a clean cycle, and run() never exits with an
\* exception.
C25_BackoffAndNoExit ==
    /\ BackoffSchedule
    /\ run.pc # "raised"


Settled(m) ==
    msgs[m].at \in {"acked", "rejected"}

Exited ==
    run.pc \in {"returned", "raised"}

\* A flag set during the reconnect backoff ends run() when the sleep ends.
StopDuringBackoffReturns ==
    (stop_event /\ run.pc = "sleeping") ~> Exited

\* A flag set while a message is queued or in processing ends run().
StopWithMessageReturns ==
    (stop_event /\ run.pc \in {"processing", "settling"}
                /\ \E m \in MessageTags : msgs[m].at = "queued") ~> Exited

\* The flag is set and the iterator waits on an empty queue.
StoppedOnIdleQueue ==
    /\ stop_event
    /\ run.pc = "waiting"
    /\ \A m \in MessageTags : msgs[m].at # "queued"

\* C27: once the stop flag is set run() eventually returns, also on an idle
\* queue and also during a reconnect backoff.
C27_StopEventuallyReturns ==
    stop_event ~> Exited


UiTables ==
    [k \in {"ui.page_view", "ui.click", "ui.add_to_cart", "ui.begin_checkout"} |->
        CASE k = "ui.page_view" -> "page_view_events"
          [] k = "ui.click" -> "click_events"
          [] k = "ui.add_to_cart" -> "cart_events"
          [] k = "ui.begin_checkout" -> "checkout_events"]

RowsIn(rows, table) ==
    {r \in rows : r.table = table}

\* C28: a claimed message with one of the four ui.* routing keys (compared
\* trimmed and in lower case) writes one row to that key's table and nothing
\* else; any other key writes one business_events row, and order.paid and
\* payment.succeeded also one order_events row with the same event_id and the
\* payload's order_id, else the entity id; nothing else is written.
C28_RoutingKeySelectsTables ==
    FnReturned("_insert_event_sync") =>
        LET rk == strip_lower(call.in.routing_key)
            rows == call.out.rows
            tables == {r.table : r \in rows}
        IN /\ rk \in DOMAIN UiTables =>
                 /\ tables = {UiTables[rk]}
                 /\ Cardinality(rows) = 1
           /\ rk \notin DOMAIN UiTables =>
                 /\ Cardinality(RowsIn(rows, "business_events")) = 1
                 /\ IF rk \in {"order.paid", "payment.succeeded"}
                       THEN /\ tables = {"business_events", "order_events"}
                            /\ Cardinality(rows) = 2
                            /\ \A o \in RowsIn(rows, "order_events") :
                                  /\ o.event_id = call.out.event.event_id
                                  /\ \A b \in RowsIn(rows, "business_events") :
                                        b.event_id = o.event_id
                                  /\ o.order_id =
                                        IF call.in.payload.order_id # None
                                           THEN call.in.payload.order_id
                                           ELSE call.out.event.entity_id
                       ELSE /\ tables = {"business_events"}
                            /\ Cardinality(rows) = 1

\* A payment message without order_id whose order row takes the entity id.
C28_Witness ==
    /\ FnReturned("_insert_event_sync")
    /\ call.in.routing_key = "payment.succeeded"
    /\ call.in.payload.order_id = None
    /\ call.in.payload.entity_id = "e1"
    /\ \E o \in call.out.rows : o.table = "order_events" /\ o.order_id = "e1"


\* The scan the specification describes: payload, meta, data, payload, event,
\* properties, each with the keys in order; the first value that is not blank.
SpecifiedScan(p) ==
    LET order == <<"top", "meta", "data", "payload", "event", "properties">>
        value(i) == IF ~p[order[i]].is_dict THEN None
                    ELSE IF _as_str(p[order[i]].entity_id) # None
                         THEN _as_str(p[order[i]].entity_id)
                         ELSE _as_str(p[order[i]].entityId)
        hits == SelectSeq([i \in DOMAIN order |-> value(i)], LAMBDA v : v # None)
    IN IF hits = <<>> THEN None ELSE hits[1]

\* The consumer's own _first_nonempty scans all six candidates in order.
ConsumerScansProperties ==
    FnReturned("_first_nonempty") => call.out = SpecifiedScan(call.in)

\* C29: both normalizers return the first non-blank value of the scan over
\* payload, meta, data, payload, event, properties (keys in priority order
\* inside each); a value present only under properties is found by
\* normalize_to_business_event.
C29_CandidateOrder ==
    (FnReturned("_first_nonempty") \/ FnReturned("_best_effort_entity_id")) =>
        call.out = SpecifiedScan(call.in)


\* An invocation of run_pipeline_once that returned after db_lock raised
\* LockNotAcquired.
ReturnedWithoutLock(p) ==
    /\ orch[p].pc = "done"
    /\ orch[p].kind \in {"once", "watch"}
    /\ orch[p].sawHeld

SkippedRowOf(p) ==
    /\ orch[p].run_id \in DOMAIN runs
    /\ runs[orch[p].run_id].status = "skipped"

\* A watch cycle (run_type given) that did not get the lock leaves its
\* skipped row.
WatchSkipRecorded ==
    \A p \in Procs :
        (ReturnedWithoutLock(p) /\ orch[p].kind = "watch") => SkippedRowOf(p)

\* C30: an invocation of run_pipeline_once that does not get the lock runs
\* no stage, returns skipped and leaves exactly one run row of its own,
\* whose status is skipped.
C30_SkipRecordsOneRow ==
    \A p \in Procs :
        ReturnedWithoutLock(p) =>
            /\ orch[p].result = "skipped"
            /\ orch[p].stagesRun = 0
            /\ SkippedRowOf(p)


====
